---- MODULE Spec2Model ----
(***************************************************************************)
(* A model of the Wiza / Dynamics 365 job-search scripts.                  *)
(*                                                                         *)
(* Every script is a sequential program; `prog' says which script runs and *)
(* `pc' where it is.  Python strings are sequences of one-character        *)
(* strings, so that strip(), lower(), split() and the URL parsing are      *)
(* computed character by character as the code computes them.  Python's    *)
(* None is the one-element sequence <<"None">>, which no string equals.    *)
(* The Dynamics server, Outlook and the file system are the environment:   *)
(* what they answer is chosen with \E.                                     *)
(***************************************************************************)
EXTENDS Integers, Sequences, FiniteSets, TLC

VARIABLES
    prog,                  \* the script that runs
    pc,                    \* its position
    files,                 \* number of files the run has still to ingest
    todo,                  \* rows still to read in the file being ingested
    counts,                \* the counters of the ingest loop that runs
    last,                  \* what the loop's latest iteration did
    nrows,                 \* number of rows of the file being ingested
    posts,                 \* the POST requests the run has issued, in order
    nextId,                \* the id Dynamics gives the next record it creates
    accounts_map,          \* dynamicsContacts: normalized name -> accountid
    domains_map,           \* dynamicsContacts: domain -> accountid
    contacts_by_email,     \* dynamicsContacts: lower-cased email -> contactid
    contacts_by_fullname,  \* dynamicsContacts: lower-cased fullname -> contactid
    existing_links,        \* dynamicsAccountsJobs: the job links known to the run
    preloaded,             \* what preload_existing_joblinks() returned
    accounts_export,       \* accountExport: the list accounts_export
    export_files,          \* the Jake_Dynamics_Acc_Import_*.csv files, oldest first
    recently_contacted_ids, \* dynamicsEmails.main: the set of that name
    preview,               \* dynamicsEmails.main: its argument
    outlook,               \* what the scripts did to Outlook
    sent_log,              \* outboundEmails: the rows of SentEmails.csv
    secret,                \* outboundEmails: EMAILS_SECRET of the environment
    user_input,            \* outboundEmails: what input() returned
    leads_read,            \* outboundEmails: load_leads was called
    master                 \* leadsExtract: the rows of the master file WizaLeads.csv

vars == <<prog, pc, files, todo, counts, last, nrows, posts, nextId,
          accounts_map, domains_map, contacts_by_email, contacts_by_fullname,
          existing_links, preloaded, accounts_export, export_files,
          recently_contacted_ids, preview, outlook, sent_log, secret, user_input,
          leads_read, master>>

contactsVars == <<accounts_map, domains_map, contacts_by_email, contacts_by_fullname>>
jobsVars == <<existing_links, preloaded, accounts_export, export_files>>

mailVars == <<recently_contacted_ids, preview, outlook, sent_log, secret, user_input,
              leads_read>>
leadsVars == <<master>>
\* what a script other than dynamicsContacts.py works on
NotContactsVars == <<jobsVars, mailVars, leadsVars>>
\* what a script other than dynamicsAccountsJobs.py, toDynamics.py and
\* accountExport.py works on
NotJobsVars == <<contactsVars, mailVars, leadsVars>>
\* what a script other than dynamicsEmails.py and outboundEmails.py works on
NotMailVars == <<contactsVars, jobsVars, leadsVars>>
\* what a script other than leadsExtract.py works on
NotLeadsVars == <<contactsVars, jobsVars, mailVars>>

----------------------------------------------------------------------------
(* Bounds of the model *)

\* files one run ingests, at most
MaxFiles == 2
\* rows one run reads, over all its files, at most
MaxRows == 2
\* calls of create_job that share one existing_links set, at most
MaxCalls == 3

----------------------------------------------------------------------------
(* Python values and string methods *)

None == <<"None">>

\* `return None' where an id is expected; Dynamics ids are 1, 2, ...
NoId == 0

\* `not v' for a string or None
Falsy(v) == v = None \/ v = <<>>

UpperCase == <<"A","B","C","D","E","F","G","H","I","J","K","L","M",
               "N","O","P","Q","R","S","T","U","V","W","X","Y","Z">>
LowerCase == <<"a","b","c","d","e","f","g","h","i","j","k","l","m",
               "n","o","p","q","r","s","t","u","v","w","x","y","z">>

LowerChar(c) ==
    IF \E i \in 1..26 : UpperCase[i] = c
    THEN LowerCase[CHOOSE i \in 1..26 : UpperCase[i] = c]
    ELSE c

\* str.lower()
lower(s) == [i \in 1..Len(s) |-> LowerChar(s[i])]

IsSpace(c) == c \in {" ", "\t"}

RECURSIVE lstrip(_)
lstrip(s) == IF s # <<>> /\ IsSpace(Head(s)) THEN lstrip(Tail(s)) ELSE s

RECURSIVE rstrip(_)
rstrip(s) ==
    IF s # <<>> /\ IsSpace(s[Len(s)]) THEN rstrip(SubSeq(s, 1, Len(s) - 1)) ELSE s

\* str.strip()
strip(s) == rstrip(lstrip(s))

\* index of the first character of s that is in set C, Len(s)+1 when none is
FirstIn(s, C) ==
    IF \E i \in 1..Len(s) : s[i] \in C
    THEN CHOOSE i \in 1..Len(s) : s[i] \in C /\ \A j \in 1..(i-1) : s[j] \notin C
    ELSE Len(s) + 1

\* str.split(): the words between runs of whitespace
RECURSIVE split(_)
split(s) ==
    LET t == lstrip(s)
        n == FirstIn(t, {" ", "\t"})
    IN  IF t = <<>> THEN <<>>
        ELSE <<SubSeq(t, 1, n - 1)>> \o split(SubSeq(t, n, Len(t)))

\* sep.join(words)
RECURSIVE join(_, _)
join(sep, words) ==
    IF words = <<>> THEN <<>>
    ELSE IF Len(words) = 1 THEN words[1]
    ELSE words[1] \o sep \o join(sep, Tail(words))

\* c in s
contains(s, c) == \E i \in 1..Len(s) : s[i] = c

\* s.startswith(p)
startswith(s, p) == Len(s) >= Len(p) /\ SubSeq(s, 1, Len(p)) = p

\* s.split(c)[-1]: what follows the last c, all of s when it holds no c
AfterLast(s, c) ==
    IF contains(s, c)
    THEN LET i == CHOOSE i \in 1..Len(s) :
                      s[i] = c /\ \A j \in (i+1)..Len(s) : s[j] # c
         IN  SubSeq(s, i + 1, Len(s))
    ELSE s

\* the part of s before its first character in C
Before(s, C) == SubSeq(s, 1, FirstIn(s, C) - 1)

\* dict[k] = v
Put(m, k, v) == [x \in DOMAIN m \cup {k} |-> IF x = k THEN v ELSE m[x]]

EmptyMap == [x \in {} |-> NoId]

\* characters outside ASCII; U+00E9 stands for the letter e with an acute accent
NonAscii == {"U+00E9"}

----------------------------------------------------------------------------
(* dynamicsContacts.py: utilities *)

\* sanitize(value) for None or a string (NaN cells are None after read_csv)
sanitize(value) ==
    IF value = None THEN None
    ELSE LET v == strip(value)
         IN  IF lower(v) = <<"n", "a", "n">> THEN None ELSE v

_norm_name(name) ==
    IF Falsy(name) THEN None ELSE join(<<" ">>, split(lower(strip(name))))

\* urllib.parse.urlparse(s).hostname for s that starts with a scheme and //
hostname(s) ==
    LET rest   == SubSeq(s, FirstIn(s, {"/"}) + 2, Len(s))
        netloc == Before(rest, {"/", "?", "#"})
        host   == Before(AfterLast(netloc, "@"), {":"})
    IN  lower(host)

_extract_domain(website_or_email) ==
    IF Falsy(website_or_email) THEN None
    ELSE LET s == strip(website_or_email)
         IN  IF contains(s, "@") /\ contains(s, ".")
             THEN lower(AfterLast(s, "@"))
             ELSE LET u == IF startswith(s, <<"h","t","t","p",":","/","/">>)
                              \/ startswith(s, <<"h","t","t","p","s",":","/","/">>)
                           THEN s
                           ELSE <<"h","t","t","p","s",":","/","/">> \o s
                      h == hostname(u)
                      host == IF startswith(h, <<"w","w","w",".">>)
                              THEN SubSeq(h, 5, Len(h)) ELSE h
                  IN  IF host = <<>> THEN None ELSE host

\* is_non_english(text): text cannot be encoded as ASCII
is_non_english(text) ==
    IF Falsy(text) THEN FALSE ELSE \E i \in 1..Len(text) : text[i] \in NonAscii

----------------------------------------------------------------------------
(* dynamicsContacts.py: what Dynamics holds and what the CSV rows hold *)

\* account records GET /accounts may return (accountid, name, websiteurl)
DynAccount1 == [accountid |-> 1, name |-> <<"A", "B">>,
                websiteurl |-> <<"h", "t", "t", "p", ":", "/", "/", "x", ".", "c", "o">>]
DynAccount2 == [accountid |-> 2, name |-> <<"a", " ", "B">>, websiteurl |-> None]

DynAccountLists == {<<>>, <<DynAccount1>>, <<DynAccount2>>, <<DynAccount1, DynAccount2>>}

\* contact records GET /contacts may return (contactid, fullname, emailaddress1)
DynContact1 == [contactid |-> 3, fullname |-> <<"j", " ", "d">>,
                emailaddress1 |-> <<"J", "@", "X", ".", "c", "o", " ">>]

DynContactLists == {<<>>, <<DynContact1>>}

\* the first id Dynamics gives a record created during the run
FirstNewId == 5

\* cells of the columns ingest_wiza_file reads, after normalize_headers
Companies == {None, <<" ", "A", "b">>, <<"a", " ", " ", "b">>}
Websites  == {None,
              <<"h", "t", "t", "p", "s", ":", "/", "/", "w", "w", "w", ".", "Y", ".", "c", "o", "/", "p">>}
Emails    == {None, <<"j", "@", "x", ".", "c", "o">>}

\* rows of a WIZA file: every combination of the cells above, for a lead with no
\* name and for a lead named J D; a row whose first name is not ASCII; a row
\* whose company cell reads Nan
WizaRows ==
    [accountname : Companies, websiteurl : Websites, emailaddress1 : Emails,
     firstname : {None}, lastname : {None}]
    \cup [accountname : Companies, websiteurl : Websites, emailaddress1 : Emails,
          firstname : {<<"J">>}, lastname : {<<"D">>}]
    \cup {[accountname |-> <<" ", "A", "b">>, websiteurl |-> None,
           emailaddress1 |-> <<"j", "@", "x", ".", "c", "o">>,
           firstname |-> <<"U+00E9">>, lastname |-> None],
          [accountname |-> <<"N", "a", "n">>, websiteurl |-> None,
           emailaddress1 |-> None, firstname |-> <<"J">>, lastname |-> <<"D">>]}

----------------------------------------------------------------------------
(* dynamicsContacts.py: preload *)

\* dict.get(k) with ids: NoId when k is no key
Get(m, k) == IF k \in DOMAIN m THEN m[k] ELSE NoId

RECURSIVE fetch_all_accounts(_, _, _)
fetch_all_accounts(value, accounts, domains) ==
    IF value = <<>> THEN [accounts |-> accounts, domains |-> domains]
    ELSE LET a     == Head(value)
             accid == a.accountid
             name  == sanitize(a.name)
             web   == sanitize(a.websiteurl)
             dom   == _extract_domain(web)
         IN  fetch_all_accounts(Tail(value),
                 IF ~Falsy(name) /\ accid # NoId
                 THEN Put(accounts, _norm_name(name), accid) ELSE accounts,
                 IF ~Falsy(dom) /\ accid # NoId
                 THEN Put(domains, dom, accid) ELSE domains)

RECURSIVE fetch_all_contacts(_, _, _)
fetch_all_contacts(value, by_email, by_fullname) ==
    IF value = <<>> THEN [by_email |-> by_email, by_fullname |-> by_fullname]
    ELSE LET c        == Head(value)
             cid      == c.contactid
             email    == sanitize(c.emailaddress1)
             fullname == sanitize(c.fullname)
         IN  fetch_all_contacts(Tail(value),
                 IF ~Falsy(email) THEN Put(by_email, lower(strip(email)), cid)
                 ELSE by_email,
                 IF ~Falsy(fullname) THEN Put(by_fullname, lower(strip(fullname)), cid)
                 ELSE by_fullname)

----------------------------------------------------------------------------
(* dynamicsContacts.py: upsert helpers.  Each returns what the call did:   *)
(* whether it raised, the value returned, the dictionaries as it left them *)
(* and the POST requests it issued.                                        *)

\* a POST /accounts, with the normalized form of the name it sends
AccountPost(name, key, ok, id) ==
    [entity |-> "accounts", key |-> key, ok |-> ok, id |-> IF ok THEN id ELSE NoId]

\* a POST /contacts, with the email and fullname of its payload
ContactPost(email, fullname, ok, id) ==
    [entity |-> "contacts", email |-> email, fullname |-> fullname, ok |-> ok,
     id |-> IF ok THEN id ELSE NoId]

\* upsert_account without `accounts_map[key] = account_id': the account is
\* created and its name not filed
upsert_account_unfiled(name, am, dm, extra, ok, newid) ==
    IF Falsy(name) \/ _norm_name(name) \in DOMAIN am
    THEN [raised |-> FALSE, ret |-> IF Falsy(name) THEN NoId ELSE am[_norm_name(name)],
          accounts_map |-> am, domains_map |-> dm, posts |-> <<>>]
    ELSE [raised |-> ~ok, ret |-> IF ok THEN newid ELSE NoId, accounts_map |-> am,
          domains_map |-> dm,
          posts |-> <<AccountPost(sanitize(name), _norm_name(name), ok, newid)>>]

\* upsert_account(name, accounts_map, domains_map, extra), extra being the dict
\* its one caller passes; ok: the POST's res.ok, newid: the id in its
\* OData-EntityId header
upsert_account(name, am, dm, extra, ok, newid) ==
    IF Falsy(name)
    THEN [raised |-> FALSE, ret |-> NoId, accounts_map |-> am, domains_map |-> dm,
          posts |-> <<>>]
    ELSE LET key == _norm_name(name)
             req == <<AccountPost(sanitize(name), key, ok, newid)>>
             dom == _extract_domain(extra.websiteurl)
         IN  IF key \in DOMAIN am
             THEN [raised |-> FALSE, ret |-> am[key], accounts_map |-> am,
                   domains_map |-> dm, posts |-> <<>>]
             ELSE IF ~ok
             THEN [raised |-> TRUE, ret |-> NoId, accounts_map |-> am,
                   domains_map |-> dm, posts |-> req]
             ELSE [raised |-> FALSE, ret |-> newid,
                   accounts_map |-> Put(am, key, newid),
                   domains_map |-> IF ~Falsy(dom) THEN Put(dm, dom, newid) ELSE dm,
                   posts |-> req]

\* upsert_contact looking a contact up by email only, never by fullname
upsert_contact_by_email_only(contact_payload, by_email, by_fullname, ok, newid) ==
    LET email == sanitize(contact_payload.emailaddress1)
        cid   == IF ~Falsy(email) THEN Get(by_email, lower(strip(email))) ELSE NoId
        req   == <<ContactPost(contact_payload.emailaddress1,
                               contact_payload.fullname, ok, newid)>>
    IN  IF cid # NoId
        THEN [raised |-> FALSE, ret |-> cid, by_email |-> by_email,
              by_fullname |-> by_fullname, posts |-> <<>>]
        ELSE [raised |-> ~ok, ret |-> IF ok THEN newid ELSE NoId,
              by_email |-> IF ok /\ ~Falsy(email)
                           THEN Put(by_email, lower(strip(email)), newid) ELSE by_email,
              by_fullname |-> by_fullname, posts |-> req]

\* upsert_contact(contact_payload, contacts_by_email, contacts_by_fullname)
upsert_contact(contact_payload, by_email, by_fullname, ok, newid) ==
    LET email    == sanitize(contact_payload.emailaddress1)
        fullname == sanitize(contact_payload.fullname)
        cid1     == IF ~Falsy(email) THEN Get(by_email, lower(strip(email))) ELSE NoId
        cid      == IF cid1 = NoId /\ ~Falsy(fullname)
                    THEN Get(by_fullname, lower(strip(fullname))) ELSE cid1
        req      == <<ContactPost(contact_payload.emailaddress1,
                                  contact_payload.fullname, ok, newid)>>
    IN  IF cid # NoId
        THEN [raised |-> FALSE, ret |-> cid, by_email |-> by_email,
              by_fullname |-> by_fullname, posts |-> <<>>]
        ELSE IF ~ok
        THEN [raised |-> TRUE, ret |-> NoId, by_email |-> by_email,
              by_fullname |-> by_fullname, posts |-> req]
        ELSE [raised |-> FALSE, ret |-> newid,
              by_email |-> IF ~Falsy(email)
                           THEN Put(by_email, lower(strip(email)), newid) ELSE by_email,
              by_fullname |-> IF ~Falsy(fullname)
                              THEN Put(by_fullname, lower(strip(fullname)), newid)
                              ELSE by_fullname,
              posts |-> req]

\* resolve_account_id trying the website domain before the company name
resolve_account_id_website_first(row, am, dm, ok, newid) ==
    LET company    == sanitize(row.accountname)
        website    == sanitize(row.websiteurl)
        name_key   == _norm_name(company)
        web_domain == _extract_domain(website)
        email_domain == _extract_domain(sanitize(row.emailaddress1))
        found(id)  == [raised |-> FALSE, ret |-> id, accounts_map |-> am,
                       domains_map |-> dm, posts |-> <<>>]
    IN  IF ~Falsy(web_domain) /\ web_domain \in DOMAIN dm THEN found(dm[web_domain])
        ELSE IF ~Falsy(name_key) /\ name_key \in DOMAIN am THEN found(am[name_key])
        ELSE IF ~Falsy(email_domain) /\ email_domain \in DOMAIN dm
        THEN found(dm[email_domain])
        ELSE IF ~Falsy(company)
        THEN upsert_account(company, am, dm, [websiteurl |-> website], ok, newid)
        ELSE found(NoId)

\* resolve_account_id(row, accounts_map, domains_map)
resolve_account_id(row, am, dm, ok, newid) ==
    LET company      == sanitize(row.accountname)
        website      == sanitize(row.websiteurl)
        email        == sanitize(row.emailaddress1)
        name_key     == _norm_name(company)
        web_domain   == _extract_domain(website)
        email_domain == _extract_domain(email)
        found(id)    == [raised |-> FALSE, ret |-> id, accounts_map |-> am,
                         domains_map |-> dm, posts |-> <<>>]
    IN  IF ~Falsy(name_key) /\ name_key \in DOMAIN am THEN found(am[name_key])
        ELSE IF ~Falsy(web_domain) /\ web_domain \in DOMAIN dm THEN found(dm[web_domain])
        ELSE IF ~Falsy(email_domain) /\ email_domain \in DOMAIN dm
        THEN found(dm[email_domain])
        ELSE IF ~Falsy(company)
        THEN upsert_account(company, am, dm, [websiteurl |-> website], ok, newid)
        ELSE found(NoId)

----------------------------------------------------------------------------
(* dynamicsContacts.py: ingest_wiza_file and main *)

\* `except Exception as e: failures += 1'
on_row_failure(c) == [c EXCEPT !.failures = @ + 1]

\* a loop that an exception leaves: what ingest_wiza_file would do without its
\* try/except
after_row_unguarded(raised) == IF raised THEN "crashed" ELSE "next"

\* where the loop of ingest_wiza_file goes after a row: on to the next row,
\* whether or not the row raised
after_row(raised) == "next"

\* `{k: v ... if v not in (None, "")}' followed by payload.get(k)
PayloadGet(v) == IF Falsy(v) THEN None ELSE v

\* the name and contact payload of a row whose account resolved to account_id
\* (full_name, contact_payload and the filter that drops None and "")
build_contact_payload(firstname, lastname, email, account_id) ==
    LET joined   == strip((IF Falsy(firstname) THEN <<>> ELSE firstname) \o <<" ">>
                          \o (IF Falsy(lastname) THEN <<>> ELSE lastname))
        fullname == IF joined = <<>> THEN None ELSE joined
    IN  [emailaddress1 |-> PayloadGet(email), fullname |-> PayloadGet(fullname),
         account |-> account_id]

\* what the row did, given what resolve_account_id (acc) and upsert_contact (con)
\* do when the row comes to call them
row_outcome(firstname, lastname, am, dm, by_email, by_fullname, c, acc, contact_payload, con) ==
    LET base      == [raised |-> FALSE, outcome |-> "none", counts |-> c,
                      accounts_map |-> am, domains_map |-> dm,
                      by_email |-> by_email, by_fullname |-> by_fullname,
                      resolved |-> FALSE, account_id |-> NoId, account_posts |-> <<>>,
                      upserted |-> FALSE, contact_payload |-> contact_payload,
                      contact_id |-> NoId, contact_posts |-> <<>>]
        withAcc   == [base EXCEPT !.resolved = TRUE, !.account_id = acc.ret,
                                  !.account_posts = acc.posts,
                                  !.accounts_map = acc.accounts_map,
                                  !.domains_map = acc.domains_map]
        withCon   == [withAcc EXCEPT !.upserted = TRUE, !.contact_id = con.ret,
                                     !.contact_posts = con.posts,
                                     !.by_email = con.by_email,
                                     !.by_fullname = con.by_fullname]
        skip(r, why) == [r EXCEPT !.outcome = why,
                                  !.counts = [c EXCEPT !.skipped_contacts = @ + 1]]
        fail(r)      == [r EXCEPT !.outcome = "failed", !.raised = TRUE,
                                  !.counts = on_row_failure(c)]
        grew      == Cardinality(DOMAIN con.by_email) > Cardinality(DOMAIN by_email)
                     \/ Cardinality(DOMAIN con.by_fullname) > Cardinality(DOMAIN by_fullname)
    IN  IF is_non_english(firstname) \/ is_non_english(lastname)
        THEN skip(base, "non_english")
        ELSE IF acc.raised THEN fail(withAcc)
        ELSE IF acc.ret = NoId THEN skip(withAcc, "no_account")
        ELSE IF Falsy(contact_payload.emailaddress1) /\ Falsy(contact_payload.fullname)
        THEN skip(withAcc, "no_identity")
        ELSE IF con.raised THEN fail(withCon)
        ELSE IF grew
        THEN [withCon EXCEPT !.outcome = "created",
                             !.counts = [c EXCEPT !.created_contacts = @ + 1]]
        ELSE skip(withCon, "exists")

\* the row from the account on: payload, upsert_contact, counters
row_after_account(row, am, dm, by_email, by_fullname, c, conOk, newid, acc, contact_payload) ==
    row_outcome(sanitize(row.firstname), sanitize(row.lastname), am, dm, by_email,
                by_fullname, c, acc, contact_payload,
                upsert_contact(contact_payload, by_email, by_fullname, conOk,
                               newid + Len(SelectSeq(acc.posts, LAMBDA q : q.ok))))

\* the row from resolve_account_id on
row_with_account(row, am, dm, by_email, by_fullname, c, conOk, newid, acc) ==
    row_after_account(row, am, dm, by_email, by_fullname, c, conOk, newid, acc,
                      build_contact_payload(sanitize(row.firstname),
                                            sanitize(row.lastname),
                                            sanitize(row.emailaddress1), acc.ret))

\* One iteration of `for _, row in df.iterrows()'.  accOk, conOk: res.ok of the
\* account POST and of the contact POST, should the row come to issue them.
ingest_wiza_row(row, am, dm, by_email, by_fullname, c, accOk, conOk, newid) ==
    row_with_account(row, am, dm, by_email, by_fullname, c, conOk, newid,
                     resolve_account_id(row, am, dm, accOk, newid))

\* the variables of scripts that do not run
IdleContacts ==
    /\ accounts_map = EmptyMap
    /\ domains_map = EmptyMap
    /\ contacts_by_email = EmptyMap
    /\ contacts_by_fullname = EmptyMap

IdleJobs ==
    /\ existing_links = {}
    /\ preloaded = {}
    /\ accounts_export = <<>>
    /\ export_files = <<>>

\* Outlook before a script touches it: no Dispatch, no folder looked up, no mail
\* item created, saved or moved
NoOutlook == [dispatched |-> FALSE, folder |-> FALSE, created |-> 0, saved |-> 0,
              moved |-> 0]

IdleMail ==
    /\ recently_contacted_ids = {}
    /\ preview = FALSE
    /\ outlook = NoOutlook
    /\ sent_log = <<>>
    /\ secret = None
    /\ user_input = None
    /\ leads_read = FALSE

IdleLeads == master = <<>>

NoRow == [n |-> 0, raised |-> FALSE, outcome |-> "none"]

ZeroContactCounts == [created_contacts |-> 0, skipped_contacts |-> 0, failures |-> 0]

\* the state in which main() of dynamicsContacts.py starts: discover_wiza_csvs()
\* has listed the files
InitContacts ==
    /\ prog = "dynamicsContacts"
    /\ pc = "main"
    /\ files \in 0..MaxFiles
    /\ todo = 0
    /\ counts = ZeroContactCounts
    /\ last = NoRow
    /\ nrows = 0
    /\ posts = <<>>
    /\ nextId = FirstNewId
    /\ accounts_map = EmptyMap
    /\ domains_map = EmptyMap
    /\ contacts_by_email = EmptyMap
    /\ contacts_by_fullname = EmptyMap
    /\ IdleJobs
    /\ IdleMail
    /\ IdleLeads

\* main: no file found, return
ContactsNoFiles ==
    /\ prog = "dynamicsContacts" /\ pc = "main" /\ files = 0
    /\ pc' = "done"
    /\ UNCHANGED <<prog, files, todo, counts, last, nrows, posts, nextId, contactsVars, NotContactsVars>>

\* main: fetch_all_accounts() and fetch_all_contacts(); a GET that is not ok raises
ContactsFetch ==
    /\ prog = "dynamicsContacts" /\ pc = "main" /\ files > 0
    /\ \/ \E av \in DynAccountLists, cv \in DynContactLists :
             \E a \in {fetch_all_accounts(av, EmptyMap, EmptyMap)},
                k \in {fetch_all_contacts(cv, EmptyMap, EmptyMap)} :
                 /\ accounts_map' = a.accounts
                 /\ domains_map' = a.domains
                 /\ contacts_by_email' = k.by_email
                 /\ contacts_by_fullname' = k.by_fullname
                 /\ pc' = "files"
       \/ /\ pc' = "crashed"
          /\ UNCHANGED contactsVars
    /\ UNCHANGED <<prog, files, todo, counts, last, nrows, posts, nextId, NotContactsVars>>

\* main: `for fp in files', entering ingest_wiza_file: read_csv finds n rows
ContactsStartFile ==
    /\ prog = "dynamicsContacts" /\ pc = "files" /\ files > 0
    /\ \E n \in 0..(MaxRows - last.n) :
          /\ todo' = n
          /\ nrows' = n
    /\ pc' = "rows"
    /\ counts' = ZeroContactCounts
    /\ last' = [NoRow EXCEPT !.n = last.n]
    /\ UNCHANGED <<prog, files, posts, nextId, contactsVars, NotContactsVars>>

\* ingest_wiza_file: `for _, row in df.iterrows()' takes the next row
ContactsNextRow ==
    /\ prog = "dynamicsContacts" /\ pc = "next" /\ todo > 0
    /\ pc' = "rows"
    /\ last' = [NoRow EXCEPT !.n = last.n]
    /\ UNCHANGED <<prog, files, todo, counts, nrows, posts, nextId, contactsVars, NotContactsVars>>

\* ingest_wiza_file: the body of the loop, for one row
ContactsRow ==
    /\ prog = "dynamicsContacts" /\ pc = "rows" /\ todo > 0
    /\ \E row \in WizaRows, accOk \in BOOLEAN, conOk \in BOOLEAN :
          \E r \in {ingest_wiza_row(row, accounts_map, domains_map, contacts_by_email,
                                    contacts_by_fullname, counts, accOk, conOk, nextId)} :
          LET issued == r.account_posts \o r.contact_posts
          IN  /\ accounts_map' = r.accounts_map
              /\ domains_map' = r.domains_map
              /\ contacts_by_email' = r.by_email
              /\ contacts_by_fullname' = r.by_fullname
              /\ counts' = r.counts
              /\ posts' = posts \o issued
              /\ nextId' = nextId + Len(SelectSeq(issued, LAMBDA q : q.ok))
              /\ last' = [n |-> last.n + 1, raised |-> r.raised, outcome |-> r.outcome,
                          row |-> row, resolved |-> r.resolved,
                          account_id |-> r.account_id, account_posts |-> r.account_posts,
                          upserted |-> r.upserted, contact_payload |-> r.contact_payload,
                          contact_id |-> r.contact_id, contact_posts |-> r.contact_posts]
              /\ pc' = after_row(r.raised)
    /\ todo' = todo - 1
    /\ UNCHANGED <<prog, files, nrows, NotContactsVars>>

\* ingest_wiza_file: the loop ends, the summary is printed, the function returns;
\* main archives the file
ContactsEndFile ==
    /\ prog = "dynamicsContacts" /\ pc \in {"rows", "next"} /\ todo = 0
    /\ pc' = "files"
    /\ files' = files - 1
    /\ last' = [NoRow EXCEPT !.n = last.n, !.outcome = "returned"]
    /\ UNCHANGED <<prog, todo, counts, nrows, posts, nextId, contactsVars, NotContactsVars>>

\* main: all files ingested
ContactsDone ==
    /\ prog = "dynamicsContacts" /\ pc = "files" /\ files = 0
    /\ pc' = "done"
    /\ UNCHANGED <<prog, files, todo, counts, last, nrows, posts, nextId, contactsVars, NotContactsVars>>

NextContacts ==
    \/ ContactsNoFiles
    \/ ContactsFetch
    \/ ContactsStartFile
    \/ ContactsNextRow
    \/ ContactsRow
    \/ ContactsEndFile
    \/ ContactsDone

SpecContacts == InitContacts /\ [][NextContacts]_vars

----------------------------------------------------------------------------
(* accountExport.py *)

\* A call of log_account_for_export with the arguments args.  Python binds them
\* to the parameters
\* (account_name, account_id, website=None): with fewer than two or more than
\* three arguments the call raises TypeError and appends nothing.
log_account_for_export(args, export) ==
    IF Len(args) < 2 \/ Len(args) > 3
    THEN [raised |-> TRUE, accounts_export |-> export]
    ELSE [raised |-> FALSE,
          accounts_export |->
              Append(export, [Company_Name |-> args[1], Account_Id |-> args[2],
                              Website |-> IF Len(args) = 3 /\ ~Falsy(args[3])
                                          THEN args[3] ELSE <<>>])]

\* DataFrame.drop_duplicates(subset=["Account Id"]): the first row of each id
RECURSIVE drop_duplicates(_)
drop_duplicates(rows) ==
    IF rows = <<>> THEN <<>>
    ELSE LET init == drop_duplicates(SubSeq(rows, 1, Len(rows) - 1))
             r    == rows[Len(rows)]
         IN  IF \E i \in 1..Len(init) : init[i].Account_Id = r.Account_Id
             THEN init ELSE Append(init, r)

\* a cell as DataFrame.to_csv writes it: a missing value is written empty
to_csv_cell(v) == IF v = None \/ v = <<"NaN">> THEN <<>> ELSE v

\* a cell as pd.read_csv reads it: an empty cell, and a cell that spells one of
\* the NA markers, is the float nan
read_csv_cell(v) ==
    IF v \in {<<>>, <<"N", "A">>, <<"n", "a", "n">>, <<"N", "a", "N">>} THEN <<"NaN">> ELSE v

to_csv(rows) ==
    [i \in 1..Len(rows) |-> [Company_Name |-> to_csv_cell(rows[i].Company_Name),
                             Account_Id |-> to_csv_cell(rows[i].Account_Id),
                             Website |-> to_csv_cell(rows[i].Website)]]

read_csv(rows) ==
    [i \in 1..Len(rows) |-> [Company_Name |-> read_csv_cell(rows[i].Company_Name),
                             Account_Id |-> read_csv_cell(rows[i].Account_Id),
                             Website |-> read_csv_cell(rows[i].Website)]]

\* pd.concat([pd.read_csv(f) for f in existing_files])
RECURSIVE read_all(_)
read_all(fs) == IF fs = <<>> THEN <<>> ELSE read_csv(Head(fs)) \o read_all(Tail(fs))

\* df_new[~df_new["Account Id"].isin(df_existing["Account Id"])]
not_isin(df_new, df_existing) ==
    SelectSeq(df_new, LAMBDA r : ~\E i \in 1..Len(df_existing) :
                                     df_existing[i].Account_Id = r.Account_Id)

\* export_accounts that does not look at the files of earlier exports
export_accounts_unfiltered(export, fs) ==
    IF export = <<>> THEN fs ELSE Append(fs, to_csv(drop_duplicates(export)))

\* export_accounts(): the files of Data/Dynamics Imports after the call, each the
\* rows written to it.  The new file is named after the second of the call; the
\* calls modelled are made in different seconds.
export_accounts(export, fs) ==
    IF export = <<>> THEN fs
    ELSE IF fs = <<>> THEN Append(fs, to_csv(drop_duplicates(export)))
    ELSE IF not_isin(drop_duplicates(export), drop_duplicates(read_all(fs))) = <<>>
    THEN fs
    ELSE Append(fs, to_csv(not_isin(drop_duplicates(export),
                                    drop_duplicates(read_all(fs)))))

\* accounts one process logs, at most
MaxLogged == 2
\* processes that run one after another, at most
MaxRuns == 2

\* what a caller passes to log_account_for_export: a name, the GUID of the
\* account, and a website or nothing
ExportNames == {<<"A", "b">>, <<"N", "A">>}
ExportIds == {<<"g", "1">>, <<"g", "2">>, <<"g", "3">>}
ExportCalls ==
    {<<n, i>> : n \in ExportNames, i \in ExportIds}
    \cup {<<n, i, None>> : n \in {<<"A", "b">>}, i \in ExportIds}
    \cup {<<n, i, <<"x", ".", "c", "o">> >> : n \in {<<"A", "b">>}, i \in ExportIds}

\* a process that imports accountExport.py starts: accounts_export = []
InitExport ==
    /\ prog = "accountExport"
    /\ pc = "run"
    /\ files = 1
    /\ todo = 0
    /\ counts = [runs |-> 1]
    /\ last = NoRow
    /\ nrows = 0
    /\ posts = <<>>
    /\ nextId = FirstNewId
    /\ IdleContacts
    /\ IdleJobs
    /\ IdleMail
    /\ IdleLeads

\* the process calls log_account_for_export(name, id) or (name, id, website)
ExportLog ==
    /\ prog = "accountExport" /\ pc = "run" /\ Len(accounts_export) < MaxLogged
    /\ \E args \in ExportCalls :
          accounts_export' = log_account_for_export(args, accounts_export).accounts_export
    /\ UNCHANGED <<prog, pc, files, todo, counts, last, nrows, posts, nextId,
                   existing_links, preloaded, export_files, NotJobsVars>>

\* the process calls export_accounts()
ExportWrite ==
    /\ prog = "accountExport" /\ pc = "run"
    /\ export_files' = export_accounts(accounts_export, export_files)
    /\ last' = [n |-> last.n + 1, raised |-> FALSE,
                outcome |-> IF export_files' = export_files THEN "no_file" ELSE "file"]
    /\ pc' = "exported"
    /\ UNCHANGED <<prog, files, todo, counts, nrows, posts, nextId, existing_links,
                   preloaded, accounts_export, NotJobsVars>>

\* the process ends and another starts, with accounts_export = [] again and the
\* files of Data/Dynamics Imports as they are
ExportNewRun ==
    /\ prog = "accountExport" /\ pc = "exported" /\ counts.runs < MaxRuns
    /\ accounts_export' = <<>>
    /\ counts' = [counts EXCEPT !.runs = @ + 1]
    /\ pc' = "run"
    /\ UNCHANGED <<prog, files, todo, last, nrows, posts, nextId, existing_links,
                   preloaded, export_files, NotJobsVars>>

NextExport ==
    \/ ExportLog
    \/ ExportWrite
    \/ ExportNewRun

SpecExport == InitExport /\ [][NextExport]_vars

----------------------------------------------------------------------------
(* dynamicsAccountsJobs.py *)

\* the id of a record that a GET with $filter finds
FoundId == 1

\* a POST /cr21a_jobpostings for a row whose stripped Job Link is link
JobPost(link, ok) ==
    [entity |-> "cr21a_jobpostings", link |-> link, ok |-> ok, id |-> NoId]

\* upsert_account(account_obj); found: the GET is ok and returns a record;
\* ok: the POST's res.ok.  Both ways end in log_account_for_export(account_obj),
\* a call with one argument.
Jobs_upsert_account(account_obj, found, ok, newid, export) ==
    LET company_name == account_obj.name
        req   == <<AccountPost(company_name, company_name, ok, newid)>>
        id    == IF found THEN FoundId ELSE newid
        logged == log_account_for_export(
                      <<[name |-> company_name, Account_Id |-> id]>>, export)
        done(reqs) == [raised |-> logged.raised,
                       ret |-> IF logged.raised THEN NoId ELSE id,
                       accounts_export |-> logged.accounts_export, posts |-> reqs]
    IN  IF company_name = None
        \* None.replace: AttributeError
        THEN [raised |-> TRUE, ret |-> NoId, accounts_export |-> export, posts |-> <<>>]
        ELSE IF found THEN done(<<>>)
        ELSE IF ~ok
        THEN [raised |-> TRUE, ret |-> NoId, accounts_export |-> export, posts |-> req]
        ELSE done(req)

\* upsert_contact(contact_name, account_id) of dynamicsAccountsJobs.py
Jobs_upsert_contact(contact_name, account_id, found, ok, newid) ==
    IF Falsy(contact_name) \/ strip(contact_name) = <<>>
    THEN [raised |-> FALSE, ret |-> NoId, posts |-> <<>>]
    ELSE IF found THEN [raised |-> FALSE, ret |-> FoundId, posts |-> <<>>]
    ELSE [raised |-> ~ok, ret |-> IF ok THEN newid ELSE NoId,
          posts |-> <<ContactPost(None, contact_name, ok, newid)>>]

\* preload_existing_joblinks(): value is the list of cr21a_joblink values of the
\* job postings Dynamics returns
RECURSIVE preload_existing_joblinks(_)
preload_existing_joblinks(value) ==
    IF value = <<>> THEN {}
    ELSE LET link == Head(value)
         IN  (IF ~Falsy(link) THEN {strip(link)} ELSE {})
             \cup preload_existing_joblinks(Tail(value))

\* create_job without `existing_links.add(job_link)': a link is checked against
\* the set and never recorded in it
create_job_unrecorded(row, account_id, contact_id, links, ok) ==
    LET job_link_raw == row.Job_Link
        job_link     == IF job_link_raw # None THEN strip(job_link_raw) ELSE <<>>
        checked      == job_link # <<>> /\ lower(job_link) # <<"n", "a", "n">>
    IN  IF checked /\ job_link \in links
        THEN [raised |-> FALSE, existing_links |-> links, posts |-> <<>>]
        ELSE [raised |-> ~ok, existing_links |-> links,
              posts |-> <<JobPost(job_link, ok)>>]

\* create_job(row, account_id, contact_id, existing_links), existing_links being
\* the set its one caller passes; ok: the POST's res.ok
create_job(row, account_id, contact_id, links, ok) ==
    LET job_link_raw == row.Job_Link
        job_link     == IF job_link_raw # None THEN strip(job_link_raw) ELSE <<>>
        checked      == job_link # <<>> /\ lower(job_link) # <<"n", "a", "n">>
    IN  IF checked /\ job_link \in links
        THEN [raised |-> FALSE, existing_links |-> links, posts |-> <<>>]
        ELSE [raised |-> ~ok,
              existing_links |-> IF checked THEN links \cup {job_link} ELSE links,
              posts |-> <<JobPost(job_link, ok)>>]

\* `except Exception as e: fail_count += 1' of ingest_file
Jobs_on_row_failure(c) == [c EXCEPT !.fail_count = @ + 1]

\* where the loop of ingest_file goes after a row
Jobs_after_row(raised) == "next"

\* One iteration of `for _, row in df.iterrows()' of ingest_file.  env says what
\* Dynamics answers: accFound, accOk, conFound, conOk, jobOk.
Jobs_ingest_row(row, links, c, export, env, newid) ==
    LET account_obj == [name |-> row.Company_Name]
        acc == Jobs_upsert_account(account_obj, env.accFound, env.accOk, newid, export)
        con == Jobs_upsert_contact(row.Contact_Name, acc.ret, env.conFound, env.conOk,
                                   newid + 1)
        job == create_job(row, acc.ret, con.ret, links, env.jobOk)
        before_count == Cardinality(links)
        after_count  == Cardinality(job.existing_links)
    IN  IF acc.raised
        THEN [raised |-> TRUE, counts |-> Jobs_on_row_failure(c),
              existing_links |-> links, accounts_export |-> acc.accounts_export,
              posts |-> acc.posts, reached |-> "upsert_account"]
        ELSE IF con.raised
        THEN [raised |-> TRUE, counts |-> Jobs_on_row_failure(c),
              existing_links |-> links, accounts_export |-> acc.accounts_export,
              posts |-> acc.posts \o con.posts, reached |-> "upsert_contact"]
        ELSE IF job.raised
        THEN [raised |-> TRUE, counts |-> Jobs_on_row_failure(c),
              existing_links |-> job.existing_links,
              accounts_export |-> acc.accounts_export,
              posts |-> acc.posts \o con.posts \o job.posts, reached |-> "create_job"]
        ELSE [raised |-> FALSE,
              counts |-> IF after_count = before_count
                         THEN [c EXCEPT !.skipped_count = @ + 1]
                         ELSE [c EXCEPT !.success_count = @ + 1],
              existing_links |-> job.existing_links,
              accounts_export |-> acc.accounts_export,
              posts |-> acc.posts \o con.posts \o job.posts, reached |-> "create_job"]

\* cr21a_joblink values of the job postings Dynamics holds
DynJobLinkLists == {<<>>, <<<<" ", "u", "/", "1", " ">>, None>>}

\* cells of the columns Company Name, Contact Name and Job Link
JobCompanies == {None, <<"A", "b">>}
JobContacts  == {None, <<"J", " ", "D">>}
JobLinks     == {None, <<"N", "A", "N">>, <<"u", "/", "1">>, <<" ", "u", "/", "2">>}

JobRows == [Company_Name : JobCompanies, Contact_Name : JobContacts, Job_Link : JobLinks]

Answers == [accFound : BOOLEAN, accOk : BOOLEAN, conFound : BOOLEAN, conOk : BOOLEAN,
            jobOk : BOOLEAN]

ZeroJobCounts == [success_count |-> 0, fail_count |-> 0, skipped_count |-> 0]

\* the state in which process_all_files() of dynamicsAccountsJobs.py starts, the
\* files of Data/Ingest listed; Data/Dynamics Imports may hold earlier exports
InitJobs ==
    /\ prog = "dynamicsAccountsJobs"
    /\ pc = "main"
    /\ files \in 0..MaxFiles
    /\ todo = 0
    /\ counts = ZeroJobCounts
    /\ last = NoRow
    /\ nrows = 0
    /\ posts = <<>>
    /\ nextId = FirstNewId
    /\ IdleContacts
    /\ IdleJobs
    /\ IdleMail
    /\ IdleLeads

\* process_all_files: no file found, return
JobsNoFiles ==
    /\ prog = "dynamicsAccountsJobs" /\ pc = "main" /\ files = 0
    /\ pc' = "done"
    /\ UNCHANGED <<prog, files, todo, counts, last, nrows, posts, nextId, jobsVars,
                   NotJobsVars>>

\* process_all_files: existing_links = preload_existing_joblinks(); a GET that is
\* not ok raises
JobsPreload ==
    /\ prog = "dynamicsAccountsJobs" /\ pc = "main" /\ files > 0
    /\ \/ \E value \in DynJobLinkLists :
             /\ existing_links' = preload_existing_joblinks(value)
             /\ preloaded' = preload_existing_joblinks(value)
             /\ pc' = "files"
       \/ /\ pc' = "crashed"
          /\ UNCHANGED <<existing_links, preloaded>>
    /\ UNCHANGED <<prog, files, todo, counts, last, nrows, posts, nextId,
                   accounts_export, export_files, NotJobsVars>>

\* process_all_files: `for filename in files', entering ingest_file, which reads
\* n rows
JobsStartFile ==
    /\ prog = "dynamicsAccountsJobs" /\ pc = "files" /\ files > 0
    /\ \E n \in 0..(MaxRows - last.n) :
          /\ todo' = n
          /\ nrows' = n
    /\ pc' = "rows"
    /\ counts' = ZeroJobCounts
    /\ last' = [NoRow EXCEPT !.n = last.n]
    /\ UNCHANGED <<prog, files, posts, nextId, jobsVars, NotJobsVars>>

\* ingest_file: `for _, row in df.iterrows()' takes the next row
JobsNextRow ==
    /\ prog = "dynamicsAccountsJobs" /\ pc = "next" /\ todo > 0
    /\ pc' = "rows"
    /\ last' = [NoRow EXCEPT !.n = last.n]
    /\ UNCHANGED <<prog, files, todo, counts, nrows, posts, nextId, jobsVars,
                   NotJobsVars>>

\* ingest_file: the body of the loop, for one row
JobsRow ==
    /\ prog = "dynamicsAccountsJobs" /\ pc = "rows" /\ todo > 0
    /\ \E row \in JobRows, env \in Answers :
          \E r \in {Jobs_ingest_row(row, existing_links, counts, accounts_export,
                                    env, nextId)} :
              /\ existing_links' = r.existing_links
              /\ accounts_export' = r.accounts_export
              /\ counts' = r.counts
              /\ posts' = posts \o r.posts
              /\ nextId' = nextId + Len(SelectSeq(r.posts, LAMBDA q : q.ok))
              /\ last' = [n |-> last.n + 1, raised |-> r.raised,
                          outcome |-> r.reached, row |-> row, posts |-> r.posts]
              /\ pc' = Jobs_after_row(r.raised)
    /\ todo' = todo - 1
    /\ UNCHANGED <<prog, files, nrows, preloaded, export_files, NotJobsVars>>

\* ingest_file: the loop ends, the summary is printed, the function returns;
\* process_all_files moves the file to Data/Digest
JobsEndFile ==
    /\ prog = "dynamicsAccountsJobs" /\ pc \in {"rows", "next"} /\ todo = 0
    /\ pc' = "files"
    /\ files' = files - 1
    /\ last' = [NoRow EXCEPT !.n = last.n, !.outcome = "returned"]
    /\ UNCHANGED <<prog, todo, counts, nrows, posts, nextId, jobsVars, NotJobsVars>>

\* process_all_files: all files ingested, export_accounts()
JobsDone ==
    /\ prog = "dynamicsAccountsJobs" /\ pc = "files" /\ files = 0
    /\ pc' = "done"
    /\ export_files' = export_accounts(accounts_export, export_files)
    /\ UNCHANGED <<prog, files, todo, counts, last, nrows, posts, nextId,
                   existing_links, preloaded, accounts_export, NotJobsVars>>

NextJobs ==
    \/ JobsNoFiles
    \/ JobsPreload
    \/ JobsStartFile
    \/ JobsNextRow
    \/ JobsRow
    \/ JobsEndFile
    \/ JobsDone

SpecJobs == InitJobs /\ [][NextJobs]_vars

----------------------------------------------------------------------------
(* dynamicsAccountsJobs.py: create_job as ingest_file calls it *)

\* lines 259-266 of ingest_file: create_job between the two len(existing_links),
\* and the counter the difference selects; a raise goes to the except clause
Jobs_count_job(row, account_id, contact_id, links, c, ok) ==
    LET job == create_job(row, account_id, contact_id, links, ok)
        before_count == Cardinality(links)
        after_count  == Cardinality(job.existing_links)
    IN  [raised |-> job.raised,
         existing_links |-> job.existing_links,
         posts |-> job.posts,
         counts |-> IF job.raised THEN Jobs_on_row_failure(c)
                    ELSE IF after_count = before_count
                    THEN [c EXCEPT !.skipped_count = @ + 1]
                    ELSE [c EXCEPT !.success_count = @ + 1]]

\* process_all_files has listed a file; nothing is preloaded yet
InitCreateJob ==
    /\ prog = "create_job"
    /\ pc = "main"
    /\ files = 1
    /\ todo = 0
    /\ counts = ZeroJobCounts
    /\ last = NoRow
    /\ nrows = 0
    /\ posts = <<>>
    /\ nextId = FirstNewId
    /\ IdleContacts
    /\ IdleJobs
    /\ IdleMail
    /\ IdleLeads

\* existing_links = preload_existing_joblinks(), then a file of n rows
CreateJobPreload ==
    /\ prog = "create_job" /\ pc = "main"
    /\ \E value \in DynJobLinkLists :
          /\ existing_links' = preload_existing_joblinks(value)
          /\ preloaded' = preload_existing_joblinks(value)
    /\ \E n \in 1..MaxCalls :
          /\ todo' = n
          /\ nrows' = n
    /\ pc' = "rows"
    /\ UNCHANGED <<prog, files, counts, last, posts, nextId, accounts_export,
                   export_files, NotJobsVars>>

\* a row for which upsert_account and upsert_contact have returned ids
CreateJobRow ==
    /\ prog = "create_job" /\ pc = "rows" /\ todo > 0
    /\ \E row \in {x \in JobRows : x.Company_Name # None}, ok \in BOOLEAN :
          \E r \in {Jobs_count_job(row, FoundId,
                                   IF Falsy(row.Contact_Name) THEN NoId ELSE FoundId,
                                   existing_links, counts, ok)} :
              /\ existing_links' = r.existing_links
              /\ counts' = r.counts
              /\ posts' = posts \o r.posts
              /\ last' = [n |-> last.n + 1, raised |-> r.raised,
                          outcome |-> "create_job", row |-> row, posts |-> r.posts]
    /\ todo' = todo - 1
    /\ UNCHANGED <<prog, pc, files, nrows, nextId, preloaded, accounts_export,
                   export_files, NotJobsVars>>

\* the file's rows are used up
CreateJobEndFile ==
    /\ prog = "create_job" /\ pc = "rows" /\ todo = 0
    /\ pc' = "done"
    /\ files' = 0
    /\ UNCHANGED <<prog, todo, counts, last, nrows, posts, nextId, jobsVars,
                   NotJobsVars>>

NextCreateJob ==
    \/ CreateJobPreload
    \/ CreateJobRow
    \/ CreateJobEndFile

SpecCreateJob == InitCreateJob /\ [][NextCreateJob]_vars

----------------------------------------------------------------------------
(* toDynamics.py *)

\* an empty cell as pandas reads it: the float nan (ingest_file of toDynamics.py
\* does not replace it by None)
NaN == <<"NaN">>

\* str(value) of a cell
str(value) == IF value = NaN THEN <<"n", "a", "n">> ELSE value

\* upsert_account(company_name, location); found: the GET is ok and returns a
\* record; ok: the POST's res.ok
ToDyn_upsert_account(company_name, found, ok, newid) ==
    IF company_name = NaN
    \* float has no attribute replace: AttributeError
    THEN [raised |-> TRUE, ret |-> NoId, posts |-> <<>>]
    ELSE IF found THEN [raised |-> FALSE, ret |-> FoundId, posts |-> <<>>]
    ELSE [raised |-> ~ok, ret |-> IF ok THEN newid ELSE NoId,
          posts |-> <<AccountPost(company_name, company_name, ok, newid)>>]

\* upsert_contact(contact_name, account_id) of toDynamics.py; nan is truthy
ToDyn_upsert_contact(contact_name, account_id, found, ok, newid) ==
    IF contact_name = <<>> \/ strip(str(contact_name)) = <<>>
    THEN [raised |-> FALSE, ret |-> NoId, posts |-> <<>>]
    ELSE IF found THEN [raised |-> FALSE, ret |-> FoundId, posts |-> <<>>]
    ELSE [raised |-> ~ok, ret |-> IF ok THEN newid ELSE NoId,
          posts |-> <<ContactPost(None, str(contact_name), ok, newid)>>]

\* sanitize(value) of toDynamics.py
ToDyn_sanitize(value) == IF value = NaN THEN None ELSE value

\* create_job(row, account_id, contact_id) of toDynamics.py: always a POST
ToDyn_create_job(row, account_id, contact_id, ok) ==
    [raised |-> ~ok, posts |-> <<JobPost(ToDyn_sanitize(row.Job_Link), ok)>>]

\* `except Exception as e: fail_count += 1' of ingest_file
ToDyn_on_row_failure(c) == [c EXCEPT !.fail_count = @ + 1]

\* where the loop of ingest_file goes after a row
ToDyn_after_row(raised) == "next"

\* one iteration of `for _, row in df.iterrows()' of ingest_file
ToDyn_ingest_row(row, c, env, newid) ==
    LET acc == ToDyn_upsert_account(row.Company_Name, env.accFound, env.accOk, newid)
        con == ToDyn_upsert_contact(row.Contact_Name, acc.ret, env.conFound,
                                    env.conOk, newid + 1)
        job == ToDyn_create_job(row, acc.ret, con.ret, env.jobOk)
        reqs == IF acc.raised THEN acc.posts
                ELSE IF con.raised THEN acc.posts \o con.posts
                ELSE acc.posts \o con.posts \o job.posts
        raised == acc.raised \/ con.raised \/ job.raised
    IN  [raised |-> raised,
         counts |-> IF raised THEN ToDyn_on_row_failure(c)
                    ELSE [c EXCEPT !.success_count = @ + 1],
         posts |-> reqs,
         reached |-> IF acc.raised THEN "upsert_account"
                     ELSE IF con.raised THEN "upsert_contact" ELSE "create_job"]

ToDynRows == [Company_Name : {NaN, <<"A", "b">>}, Contact_Name : {NaN, <<"J", " ", "D">>},
              Job_Link : {NaN, <<"u", "/", "1">>}]

ZeroToDynCounts == [success_count |-> 0, fail_count |-> 0]

\* the state in which process_all_files() of toDynamics.py starts
InitToDyn ==
    /\ prog = "toDynamics"
    /\ pc = "main"
    /\ files \in 0..MaxFiles
    /\ todo = 0
    /\ counts = ZeroToDynCounts
    /\ last = NoRow
    /\ nrows = 0
    /\ posts = <<>>
    /\ nextId = FirstNewId
    /\ IdleContacts
    /\ IdleJobs
    /\ IdleMail
    /\ IdleLeads

\* process_all_files: no file found, return
ToDynNoFiles ==
    /\ prog = "toDynamics" /\ pc = "main" /\ files = 0
    /\ pc' = "done"
    /\ UNCHANGED <<prog, files, todo, counts, last, nrows, posts, nextId, jobsVars,
                   NotJobsVars>>

\* process_all_files: `for filename in files', entering ingest_file, which reads
\* n rows
ToDynStartFile ==
    /\ prog = "toDynamics" /\ pc \in {"main", "files"} /\ files > 0
    /\ \E n \in 0..(MaxRows - last.n) :
          /\ todo' = n
          /\ nrows' = n
    /\ pc' = "rows"
    /\ counts' = ZeroToDynCounts
    /\ last' = [NoRow EXCEPT !.n = last.n]
    /\ UNCHANGED <<prog, files, posts, nextId, jobsVars, NotJobsVars>>

\* ingest_file: `for _, row in df.iterrows()' takes the next row
ToDynNextRow ==
    /\ prog = "toDynamics" /\ pc = "next" /\ todo > 0
    /\ pc' = "rows"
    /\ last' = [NoRow EXCEPT !.n = last.n]
    /\ UNCHANGED <<prog, files, todo, counts, nrows, posts, nextId, jobsVars,
                   NotJobsVars>>

\* ingest_file: the body of the loop, for one row
ToDynRow ==
    /\ prog = "toDynamics" /\ pc = "rows" /\ todo > 0
    /\ \E row \in ToDynRows, env \in Answers :
          \E r \in {ToDyn_ingest_row(row, counts, env, nextId)} :
              /\ counts' = r.counts
              /\ posts' = posts \o r.posts
              /\ nextId' = nextId + Len(SelectSeq(r.posts, LAMBDA q : q.ok))
              /\ last' = [n |-> last.n + 1, raised |-> r.raised,
                          outcome |-> r.reached, row |-> row, posts |-> r.posts]
              /\ pc' = ToDyn_after_row(r.raised)
    /\ todo' = todo - 1
    /\ UNCHANGED <<prog, files, nrows, jobsVars, NotJobsVars>>

\* ingest_file: the loop ends, the summary is printed, the function returns;
\* process_all_files moves the file to Data/Digest
ToDynEndFile ==
    /\ prog = "toDynamics" /\ pc \in {"rows", "next"} /\ todo = 0
    /\ pc' = "files"
    /\ files' = files - 1
    /\ last' = [NoRow EXCEPT !.n = last.n, !.outcome = "returned"]
    /\ UNCHANGED <<prog, todo, counts, nrows, posts, nextId, jobsVars, NotJobsVars>>

\* process_all_files: all files ingested
ToDynDone ==
    /\ prog = "toDynamics" /\ pc = "files" /\ files = 0
    /\ pc' = "done"
    /\ UNCHANGED <<prog, files, todo, counts, last, nrows, posts, nextId, jobsVars,
                   NotJobsVars>>

NextToDyn ==
    \/ ToDynNoFiles
    \/ ToDynStartFile
    \/ ToDynNextRow
    \/ ToDynRow
    \/ ToDynEndFile
    \/ ToDynDone

SpecToDyn == InitToDyn /\ [][NextToDyn]_vars

----------------------------------------------------------------------------
(* the three row loops together *)

InitIngest == InitContacts \/ InitJobs \/ InitToDyn

NextIngest == NextContacts \/ NextJobs \/ NextToDyn

SpecIngest == InitIngest /\ [][NextIngest]_vars

----------------------------------------------------------------------------
(* dynamicsEmails.py *)

\* contact-job pairs one run of main goes through, at most
MaxPairs == 2

\* s.lstrip(chars), s.rstrip(chars), s.strip(chars) for a set of characters
RECURSIVE lstrip_chars(_, _)
lstrip_chars(s, C) == IF s # <<>> /\ Head(s) \in C THEN lstrip_chars(Tail(s), C) ELSE s

RECURSIVE rstrip_chars(_, _)
rstrip_chars(s, C) ==
    IF s # <<>> /\ s[Len(s)] \in C THEN rstrip_chars(SubSeq(s, 1, Len(s) - 1), C) ELSE s

strip_chars(s, C) == rstrip_chars(lstrip_chars(s, C), C)

\* re.sub(r'^mailto:', '', e, flags=re.I)
drop_mailto(e) ==
    IF startswith(lower(e), <<"m", "a", "i", "l", "t", "o", ":">>)
    THEN SubSeq(e, 8, Len(e)) ELSE e

\* normalize_email(addr); pd.isna holds of None
normalize_email(addr) ==
    IF addr = None THEN <<>>
    ELSE lower(strip_chars(strip_chars(strip(drop_mailto(strip(addr))), {"\""}), {"'"}))

\* load_recently_emailed_contact_ids: emails is the list of the emails of all
\* pages, each the list of its To parties
load_recently_emailed_contact_ids(emails) ==
    UNION { { emails[i][j].partyid :
                j \in { k \in 1..Len(emails[i]) :
                          /\ emails[i][k].logical_name = "contact"
                          /\ emails[i][k].partyid # NoId } } :
            i \in 1..Len(emails) }

\* the outgoing emails of the last CONTACT_COOLDOWN_DAYS days that Dynamics holds
RecentEmailLists ==
    { <<>>,
      << <<[logical_name |-> "contact", partyid |-> 1]>> >>,
      << <<[logical_name |-> "contact", partyid |-> 1],
           [logical_name |-> "account", partyid |-> 2]>>,
         <<[logical_name |-> "contact", partyid |-> NoId]>> >>,
      << <<[logical_name |-> "contact", partyid |-> 1]>>,
         <<[logical_name |-> "contact", partyid |-> 2]>> >> }

\* the contacts of the accounts that have job postings
EmailContacts ==
    [contactid : {1, 2},
     emailaddress1 : {None, <<"m", "a", "i", "l", "t", "o", ":">>,
                      <<"'", "A", "@", "x", ".", "c", "o", "'">>}]

\* a POST /emails by log_email_to_dynamics for a contact
EmailPost(contact_id, ok) ==
    [entity |-> "emails", contact |-> contact_id, ok |-> ok, id |-> NoId]

\* log_email_to_dynamics: the POST; a response that is not ok and an exception
\* are printed, nothing is raised
log_email_to_dynamics(contact_id, ok) == <<EmailPost(contact_id, ok)>>

\* stage_email; fails: the call of Outlook that raises ("none" when none does),
\* logOk: the answer to the POST
stage_email(ol, contact, fails, logOk) ==
    IF fails = "CreateItem"
    THEN [raised |-> TRUE, outlook |-> ol, posts |-> <<>>]
    ELSE IF fails = "Save"
    THEN [raised |-> TRUE, outlook |-> [ol EXCEPT !.created = @ + 1], posts |-> <<>>]
    ELSE IF fails = "Move"
    THEN [raised |-> TRUE,
          outlook |-> [ol EXCEPT !.created = @ + 1, !.saved = @ + 1], posts |-> <<>>]
    ELSE [raised |-> FALSE,
          outlook |-> [ol EXCEPT !.created = @ + 1, !.saved = @ + 1, !.moved = @ + 1],
          posts |-> log_email_to_dynamics(contact.contactid, logOk)]

\* a cooldown check that never skips
skip_recent_never(contact_id, recent) == FALSE

\* main: `if contact_id in recently_contacted_ids'
skip_recent(contact_id, recent) == contact_id \in recent

\* a preview flag that is not looked at
preview_mode_never(flag) == FALSE

\* main: `if preview'
preview_mode(flag) == flag

\* main: the try around stage_email and the count of missing attachments
stage_and_count(c, ol, st, missing) ==
    [outcome |-> IF st.raised THEN "stage_failed" ELSE "staged",
     counts |-> [c EXCEPT !.staged_count = IF st.raised THEN @ ELSE @ + 1,
                          !.missing_attachments = @ + missing],
     outlook |-> st.outlook, posts |-> st.posts]

\* main: the body of `for contact in contacts'; missing: the attachments of the
\* contact's lead type that do not exist
email_contact(contact, recipient, recent, flag, c, ol, fails, logOk, missing) ==
    IF recipient = <<>>
    THEN [outcome |-> "no_email", counts |-> [c EXCEPT !.skipped_no_email = @ + 1],
          outlook |-> ol, posts |-> <<>>]
    ELSE IF skip_recent(contact.contactid, recent)
    THEN [outcome |-> "recent", counts |-> [c EXCEPT !.skipped_recent = @ + 1],
          outlook |-> ol, posts |-> <<>>]
    ELSE IF preview_mode(flag)
    THEN [outcome |-> "preview", counts |-> c, outlook |-> ol, posts |-> <<>>]
    ELSE stage_and_count(c, ol, stage_email(ol, contact, fails, logOk), missing)

ZeroEmailCounts == [staged_count |-> 0, skipped_no_email |-> 0, skipped_recent |-> 0,
                    missing_attachments |-> 0]

\* the state in which main(preview) of dynamicsEmails.py starts; files counts
\* the job postings still to go through
InitEmails ==
    /\ prog = "dynamicsEmails"
    /\ pc = "main"
    /\ files = 0
    /\ todo = 0
    /\ counts = ZeroEmailCounts
    /\ last = NoRow
    /\ nrows = 0
    /\ posts = <<>>
    /\ nextId = FirstNewId
    /\ IdleContacts
    /\ IdleJobs
    /\ IdleLeads
    /\ recently_contacted_ids = {}
    /\ preview \in BOOLEAN
    /\ outlook = NoOutlook
    /\ sent_log = <<>>
    /\ secret = None
    /\ user_input = None
    /\ leads_read = FALSE

\* main: the session, the sender, the cooldown list, the accounts, contacts and
\* jobs are loaded; an exception in any of them makes main return
EmailsLoad ==
    /\ prog = "dynamicsEmails" /\ pc = "main"
    /\ \/ \E emails \in RecentEmailLists, jobs \in 0..MaxPairs :
             /\ recently_contacted_ids' = load_recently_emailed_contact_ids(emails)
             /\ files' = jobs
             /\ pc' = "outlook"
       \/ /\ pc' = "done"
          /\ UNCHANGED <<recently_contacted_ids, files>>
    /\ UNCHANGED <<prog, todo, counts, last, nrows, posts, nextId, preview, outlook,
                   sent_log, secret, user_input, leads_read, NotMailVars>>

\* main: Dispatch("Outlook.Application") and get_or_create_custom_folder, either
\* of which may raise
EmailsOutlook ==
    /\ prog = "dynamicsEmails" /\ pc = "outlook"
    /\ \/ /\ outlook' = [outlook EXCEPT !.dispatched = TRUE, !.folder = TRUE]
          /\ pc' = "jobs"
       \/ /\ outlook' = [outlook EXCEPT !.dispatched = TRUE]
          /\ pc' = "crashed"
       \/ /\ outlook' = outlook
          /\ pc' = "crashed"
    /\ UNCHANGED <<prog, files, todo, counts, last, nrows, posts, nextId,
                   recently_contacted_ids, preview, sent_log, secret, user_input,
                   leads_read, NotMailVars>>

\* main: `for job in jobs' takes a job, whose account has n contacts
EmailsStartJob ==
    /\ prog = "dynamicsEmails" /\ pc = "jobs" /\ files > 0
    /\ \E n \in 0..(MaxPairs - last.n) :
          /\ todo' = n
          /\ nrows' = n
    /\ pc' = "contacts"
    /\ UNCHANGED <<prog, files, counts, last, posts, nextId, mailVars, NotMailVars>>

\* main: the body of `for contact in contacts', for one contact
EmailsContact ==
    /\ prog = "dynamicsEmails" /\ pc = "contacts" /\ todo > 0
    /\ \E contact \in EmailContacts, fails \in {"none", "CreateItem", "Save", "Move"},
          logOk \in BOOLEAN, missing \in 0..2 :
          \E r \in {email_contact(contact, normalize_email(contact.emailaddress1),
                                  recently_contacted_ids, preview, counts, outlook,
                                  fails, logOk, missing)} :
              /\ counts' = r.counts
              /\ outlook' = r.outlook
              /\ posts' = posts \o r.posts
              /\ last' = [n |-> last.n + 1, raised |-> FALSE, outcome |-> r.outcome,
                          contact |-> contact]
    /\ todo' = todo - 1
    /\ UNCHANGED <<prog, pc, files, nrows, nextId, recently_contacted_ids, preview,
                   sent_log, secret, user_input, leads_read, NotMailVars>>

\* main: the contacts of the job are used up
EmailsEndJob ==
    /\ prog = "dynamicsEmails" /\ pc = "contacts" /\ todo = 0
    /\ pc' = "jobs"
    /\ files' = files - 1
    /\ UNCHANGED <<prog, todo, counts, last, nrows, posts, nextId, mailVars,
                   NotMailVars>>

\* main: the jobs are used up, the summary is printed
EmailsDone ==
    /\ prog = "dynamicsEmails" /\ pc = "jobs" /\ files = 0
    /\ pc' = "done"
    /\ UNCHANGED <<prog, files, todo, counts, last, nrows, posts, nextId, mailVars,
                   NotMailVars>>

NextEmails ==
    \/ EmailsLoad
    \/ EmailsOutlook
    \/ EmailsStartJob
    \/ EmailsContact
    \/ EmailsEndJob
    \/ EmailsDone

SpecEmails == InitEmails /\ [][NextEmails]_vars

----------------------------------------------------------------------------
(* outboundEmails.py *)

\* leads WizaLeads.csv holds, at most
MaxLeads == 2

\* EMAILS_SECRET: not set, set to the empty string, set
Secrets == {None, <<>>, <<"k", "1">>}

\* what the user types at the prompt
Inputs == {<<>>, <<"k", "1">>, <<"K", "1">>, <<"k", "1", " ">>}

\* main: `if not secret'
secret_missing(sec) == Falsy(sec)

\* a comparison that ignores letter case
secret_matches_ignoring_case(typed, sec) == lower(typed) = lower(sec)

\* main: `user_input != secret', negated
secret_matches(typed, sec) == typed = sec

\* the greatest number of a non-empty set
SetMax(S) == CHOOSE x \in S : \A y \in S : y <= x

\* log_email(leadId, email, status, batchId): the rows of SentEmails.csv after the
\* call, as a set (the call sorts them by leadId)
log_email(log, leadId, email, status, batchId) ==
    log \cup {[id |-> IF log # {} THEN SetMax({r.id : r \in log}) + 1 ELSE 1,
               batchId |-> batchId, leadId |-> leadId, email |-> email,
               status |-> status]}

\* main: next_batch_id
next_batch_id(log) == IF log # {} THEN SetMax({r.batchId : r \in log}) + 1 ELSE 1

\* rows of WizaLeads.csv; an empty cell is the float nan
OutboundLeads ==
    [leadId : {1, 2}, email : {NaN, <<"a", "@", "x", ".", "c", "o">>},
     type : {NaN, <<"s", "o", "f", "t", "w", "a", "r", "e">>}]

\* the files WizaLeads.csv can be
LeadLists ==
    {<<>>} \cup {<<x>> : x \in OutboundLeads}
           \cup {<<x, y>> : x \in OutboundLeads, y \in {z \in OutboundLeads : z.leadId = 2}}

\* SentEmails.csv as earlier runs left it
SentLogs ==
    {{}, {[id |-> 1, batchId |-> 1, leadId |-> 2,
           email |-> <<"a", "@", "x", ".", "c", "o">>, status |-> "DRAFT"]}}

\* preview_email(lead): lead.get("type", "software").lower() raises AttributeError
\* when the type cell is empty
preview_email_raises(lead) == lead.type = NaN

\* main: the body of the staging loop, for one lead; fails: the call of Outlook
\* that raises ("none" when none does)
outbound_stage(lead, ol, log, batch, fails) ==
    IF lead.email = NaN
    THEN [outlook |-> ol, outcome |-> "no_recipient",
          sent_log |-> log_email(log, lead.leadId, lead.email, "FAILURE", batch)]
    ELSE IF fails = "CreateItem"
    THEN [outlook |-> ol, outcome |-> "failed",
          sent_log |-> log_email(log, lead.leadId, lead.email, "FAILURE", batch)]
    ELSE IF fails = "Save"
    THEN [outlook |-> [ol EXCEPT !.created = @ + 1], outcome |-> "failed",
          sent_log |-> log_email(log, lead.leadId, lead.email, "FAILURE", batch)]
    ELSE IF fails = "Move"
    THEN [outlook |-> [ol EXCEPT !.created = @ + 1, !.saved = @ + 1],
          outcome |-> "failed",
          sent_log |-> log_email(log, lead.leadId, lead.email, "FAILURE", batch)]
    ELSE [outlook |-> [ol EXCEPT !.created = @ + 1, !.saved = @ + 1, !.moved = @ + 1],
          outcome |-> "draft",
          sent_log |-> log_email(log, lead.leadId, lead.email, "DRAFT", batch)]

\* the state in which main() of outboundEmails.py starts
InitOutbound ==
    /\ prog = "outboundEmails"
    /\ pc = "main"
    /\ files = 0
    /\ todo = 0
    /\ counts = ZeroEmailCounts
    /\ last = NoRow
    /\ nrows = 0
    /\ posts = <<>>
    /\ nextId = FirstNewId
    /\ IdleContacts
    /\ IdleJobs
    /\ IdleLeads
    /\ recently_contacted_ids = {}
    /\ preview = FALSE
    /\ outlook = NoOutlook
    /\ sent_log \in SentLogs
    /\ secret \in Secrets
    /\ user_input = None
    /\ leads_read = FALSE

\* main: EMAILS_SECRET is read; without it main returns
OutboundSecret ==
    /\ prog = "outboundEmails" /\ pc = "main"
    /\ pc' = IF secret_missing(secret) THEN "done" ELSE "input"
    /\ UNCHANGED <<prog, files, todo, counts, last, nrows, posts, nextId, mailVars,
                   NotMailVars>>

\* main: the user is asked for the secret; a wrong one makes main return
OutboundInput ==
    /\ prog = "outboundEmails" /\ pc = "input"
    /\ \E typed \in Inputs :
          /\ user_input' = typed
          /\ pc' = IF secret_matches(typed, secret) THEN "load" ELSE "done"
    /\ UNCHANGED <<prog, files, todo, counts, last, nrows, posts, nextId,
                   recently_contacted_ids, preview, outlook, sent_log, secret,
                   leads_read, NotMailVars>>

\* main: next_batch_id from SentEmails.csv, then load_leads, which raises when
\* WizaLeads.csv cannot be read
OutboundLoad ==
    /\ prog = "outboundEmails" /\ pc = "load"
    /\ leads_read' = TRUE
    /\ nextId' = next_batch_id(sent_log)
    /\ \/ \E leads \in {l \in LeadLists : Len(l) <= MaxLeads} :
             /\ last' = [n |-> 0, raised |-> FALSE, outcome |-> "none", leads |-> leads]
             /\ pc' = "outlook"
       \/ /\ pc' = "crashed"
          /\ last' = last
    /\ UNCHANGED <<prog, files, todo, counts, nrows, posts, recently_contacted_ids,
                   preview, outlook, sent_log, secret, user_input, NotMailVars>>

\* main: Dispatch("Outlook.Application") and get_or_create_custom_folder, either
\* of which may raise; then the loop that previews every lead
OutboundOutlook ==
    /\ prog = "outboundEmails" /\ pc = "outlook"
    /\ \/ /\ outlook' = [outlook EXCEPT !.dispatched = TRUE, !.folder = TRUE]
          /\ pc' = IF \E i \in 1..Len(last.leads) : preview_email_raises(last.leads[i])
                   THEN "crashed" ELSE "stage"
       \/ /\ outlook' = [outlook EXCEPT !.dispatched = TRUE]
          /\ pc' = "crashed"
       \/ /\ outlook' = outlook
          /\ pc' = "crashed"
    /\ UNCHANGED <<prog, files, todo, counts, last, nrows, posts, nextId,
                   recently_contacted_ids, preview, sent_log, secret, user_input,
                   leads_read, NotMailVars>>

\* main: the body of `for lead_data, email_body in drafts_to_create', for one lead
OutboundStage ==
    /\ prog = "outboundEmails" /\ pc = "stage" /\ last.leads # <<>>
    /\ \E fails \in {"none", "CreateItem", "Save", "Move"} :
          \E r \in {outbound_stage(Head(last.leads), outlook, sent_log, nextId, fails)} :
              /\ outlook' = r.outlook
              /\ sent_log' = r.sent_log
              /\ last' = [n |-> last.n + 1, raised |-> FALSE, outcome |-> r.outcome,
                          leads |-> Tail(last.leads)]
    /\ UNCHANGED <<prog, pc, files, todo, counts, nrows, posts, nextId,
                   recently_contacted_ids, preview, secret, user_input, leads_read,
                   NotMailVars>>

\* main: the leads are used up
OutboundDone ==
    /\ prog = "outboundEmails" /\ pc = "stage" /\ last.leads = <<>>
    /\ pc' = "done"
    /\ UNCHANGED <<prog, files, todo, counts, last, nrows, posts, nextId, mailVars,
                   NotMailVars>>

NextOutbound ==
    \/ OutboundSecret
    \/ OutboundInput
    \/ OutboundLoad
    \/ OutboundOutlook
    \/ OutboundStage
    \/ OutboundDone

SpecOutbound == InitOutbound /\ [][NextOutbound]_vars

----------------------------------------------------------------------------
(* leadsExtract.py *)

\* rows the new WIZA files of one run hold together, at most
MaxNewRows == 2

\* the columns of the master file other than id
LeadColumns == {"type", "email", "name", "source_file"}

\* pd.isna of the cell of column c; the id column is never empty
isna(c, v) == c # "id" /\ v = NaN

\* p in s, for strings
HasSubstring(s, p) ==
    \E i \in 1..(Len(s) - Len(p) + 1) : SubSeq(s, i, i + Len(p) - 1) = p

\* determine_type(filename)
determine_type(filename) ==
    IF HasSubstring(lower(filename), <<"c", "o", "n", "s", "u", "l", "t", "i", "n", "g">>)
    THEN <<"c", "o", "n", "s", "u", "l", "t", "i", "n", "g">>
    ELSE IF HasSubstring(lower(filename), <<"s", "o", "f", "t", "w", "a", "r", "e">>)
    THEN <<"s", "o", "f", "t", "w", "a", "r", "e">>
    ELSE <<"u", "n", "k", "n", "o", "w", "n">>

\* the master file as pd.read_csv reads it, and a frame as to_csv writes it
leads_read_csv(rows) ==
    [i \in 1..Len(rows) |->
        [id |-> rows[i].id, type |-> read_csv_cell(rows[i].type),
         email |-> read_csv_cell(rows[i].email), name |-> read_csv_cell(rows[i].name),
         source_file |-> read_csv_cell(rows[i].source_file)]]

leads_to_csv(rows) ==
    [i \in 1..Len(rows) |->
        [id |-> rows[i].id, type |-> to_csv_cell(rows[i].type),
         email |-> to_csv_cell(rows[i].email), name |-> to_csv_cell(rows[i].name),
         source_file |-> to_csv_cell(rows[i].source_file)]]

\* no file counted as imported
load_existing_sources_none(master_df) == {}

\* load_existing_sources(): set(df["source_file"].dropna().unique())
load_existing_sources(master_df) ==
    {master_df[i].source_file : i \in 1..Len(master_df)} \ {NaN}

\* main: next_id
leads_next_id(master_df) ==
    IF master_df # <<>> THEN SetMax({master_df[i].id : i \in 1..Len(master_df)}) + 1
    ELSE 1

\* main: the columns source_file, id and type added to the rows of a new file
number_rows(rows, base, next_id) ==
    [i \in 1..Len(rows) |->
        [id |-> next_id + i - 1, type |-> determine_type(base), email |-> rows[i].email,
         name |-> rows[i].name, source_file |-> base]]

\* main, "Remove duplicates against existing master emails": removed is
\* before_dedup - len(df) with df as it was, and no row of df is dropped
remove_master_duplicates(df) == df

\* main: `for file in scan_wiza_files()': the frames of the files not imported
\* before, concatenated
RECURSIVE read_new_files(_, _, _)
read_new_files(fs, existing_sources, next_id) ==
    IF fs = <<>> THEN <<>>
    ELSE IF Head(fs).base \in existing_sources
    THEN read_new_files(Tail(fs), existing_sources, next_id)
    ELSE remove_master_duplicates(number_rows(Head(fs).rows, Head(fs).base, next_id))
         \o read_new_files(Tail(fs), existing_sources, next_id + Len(Head(fs).rows))

\* main: processed_files, the files whose rows were appended to all_new_dfs
processed_files(fs, existing_sources) ==
    SelectSeq(fs, LAMBDA f : f.base \notin existing_sources /\ f.rows # <<>>)

\* combined.sort_values("id")
RECURSIVE sort_values_id(_)
sort_values_id(rows) ==
    IF rows = <<>> THEN <<>>
    ELSE LET m == CHOOSE i \in 1..Len(rows) :
                      /\ \A j \in 1..Len(rows) : rows[i].id <= rows[j].id
                      /\ \A j \in 1..(i - 1) : rows[j].id # rows[i].id
         IN  <<rows[m]>> \o sort_values_id(SubSeq(rows, 1, m - 1)
                                           \o SubSeq(rows, m + 1, Len(rows)))

\* the order of characters and of strings by which groupby sorts its keys
CharOrder == <<".", "@", "a", "b", "c", "o", "x">>
CharRank(ch) == CHOOSE i \in 1..Len(CharOrder) : CharOrder[i] = ch

RECURSIVE StrLess(_, _)
StrLess(s, u) ==
    IF u = <<>> THEN FALSE
    ELSE IF s = <<>> THEN TRUE
    ELSE IF Head(s) = Head(u) THEN StrLess(Tail(s), Tail(u))
    ELSE CharRank(Head(s)) < CharRank(Head(u))

\* the keys of groupby("email"): the emails that are not missing, ascending
RECURSIVE sorted_keys(_)
sorted_keys(S) ==
    IF S = {} THEN <<>>
    ELSE LET m == CHOOSE x \in S : \A y \in S : ~StrLess(y, x)
         IN  <<m>> \o sorted_keys(S \ {m})

\* g.ffill() and g.bfill() on column c of the rows of a group
ffill(g, c) ==
    [i \in 1..Len(g) |->
        IF \E k \in 1..i : ~isna(c, g[k][c])
        THEN g[CHOOSE k \in 1..i : /\ ~isna(c, g[k][c])
                                   /\ \A l \in (k + 1)..i : isna(c, g[l][c])][c]
        ELSE g[i][c]]

bfill(col, c) ==
    [i \in 1..Len(col) |->
        IF \E k \in i..Len(col) : ~isna(c, col[k])
        THEN col[CHOOSE k \in i..Len(col) : /\ ~isna(c, col[k])
                                            /\ \A l \in i..(k - 1) : isna(c, col[l])]
        ELSE col[i]]

\* g.iloc[0], with no filling
first_unfilled(g) == g[1]

\* lambda g: g.ffill().bfill().iloc[0]
first_filled(g) ==
    [id |-> bfill(ffill(g, "id"), "id")[1],
     type |-> bfill(ffill(g, "type"), "type")[1],
     email |-> bfill(ffill(g, "email"), "email")[1],
     name |-> bfill(ffill(g, "name"), "name")[1],
     source_file |-> bfill(ffill(g, "source_file"), "source_file")[1]]

\* combined.groupby("email", as_index=False).apply(...): one row for each key
groupby_email_apply(rows, keys) ==
    [k \in 1..Len(keys) |-> first_filled(SelectSeq(rows, LAMBDA r : r.email = keys[k]))]

\* the ids left as the deduplication gives them
reassign_ids_skipped(rows) == rows

\* combined["id"] = range(1, len(combined)+1)
reassign_ids(rows) == [i \in 1..Len(rows) |-> [rows[i] EXCEPT !.id = i]]

\* main: the final deduplication and the renumbering of the sorted frame
dedup_and_renumber(sorted) ==
    reassign_ids(groupby_email_apply(sorted,
        sorted_keys({sorted[i].email : i \in 1..Len(sorted)} \ {NaN})))

\* main from the concatenation on; new: the rows of the new files
\* processed: the files to archive after the master file is written
leads_merge(master_file, master_df, new, processed) ==
    IF new = <<>>
    \* nothing new: the master file is left as it is and no file is moved (with
    \* no master file pd.concat raises on the empty list instead of returning)
    THEN [master |-> master_file, combined |-> <<>>, outcome |-> "unchanged",
          archived |-> <<>>, new_rows |-> 0]
    ELSE [master |-> leads_to_csv(dedup_and_renumber(sort_values_id(master_df \o new))),
          combined |-> sort_values_id(master_df \o new), outcome |-> "written",
          archived |-> processed, new_rows |-> Len(new)]

\* main(): master_file is WizaLeads.csv (no rows: no file), fs the WIZA files
leads_main(master_file, fs) ==
    leads_merge(master_file, leads_read_csv(master_file),
                read_new_files(fs, load_existing_sources(leads_read_csv(master_file)),
                               leads_next_id(leads_read_csv(master_file))),
                processed_files(fs, load_existing_sources(leads_read_csv(master_file))))

\* rows of a WIZA file: a row with no email, and rows with an email and a
\* name or none
WizaLeadRows ==
    {[email |-> NaN, name |-> <<"n", "1">>]}
    \cup [email : {<<"a", "@", "x", ".", "c", "o">>, <<"b", "@", "x", ".", "c", "o">>},
          name : {NaN, <<"n", "1">>, <<"n", "2">>}]

WizaBases == {<<"W", "I", "Z", "A", "_", "S", "o", "f", "t", "w", "a", "r", "e", ".", "c", "s", "v">>,
              <<"W", "I", "Z", "A", "_", "2", ".", "c", "s", "v">>}

\* the lists of rows of a file, up to n rows
RowLists(n) ==
    UNION {[1..k -> WizaLeadRows] : k \in 0..n}

\* the WIZA files of the downloads folder: one file, or two of different names
WizaFileLists ==
    {<<[base |-> b, rows |-> r]>> : b \in WizaBases, r \in RowLists(MaxNewRows)}
    \cup {l \in {<<[base |-> b1, rows |-> r1], [base |-> b2, rows |-> r2]>> :
                    b1 \in WizaBases, b2 \in WizaBases, r1 \in RowLists(1),
                    r2 \in RowLists(MaxNewRows - 1)} : l[1].base # l[2].base}

\* before the first run: no master file
InitLeads ==
    /\ prog = "leadsExtract"
    /\ pc = "run"
    /\ files = 0
    /\ todo = 0
    /\ counts = [runs |-> 0]
    /\ last = NoRow
    /\ nrows = 0
    /\ posts = <<>>
    /\ nextId = FirstNewId
    /\ IdleContacts
    /\ IdleJobs
    /\ IdleMail
    /\ master = <<>>

\* one run of main(), to its return
LeadsRun ==
    /\ prog = "leadsExtract" /\ pc = "run"
    /\ \E fs \in WizaFileLists :
          \E r \in {leads_main(master, fs)} :
              /\ master' = r.master
              /\ last' = [n |-> last.n + 1, raised |-> FALSE, outcome |-> r.outcome,
                          combined |-> r.combined, fs |-> fs, archived |-> r.archived,
                          new_rows |-> r.new_rows]
    /\ counts' = [counts EXCEPT !.runs = @ + 1]
    /\ pc' = "done"
    /\ UNCHANGED <<prog, files, todo, nrows, posts, nextId, NotLeadsVars>>

\* the script is started again, over the files downloaded since
LeadsNewRun ==
    /\ prog = "leadsExtract" /\ pc = "done" /\ counts.runs < MaxRuns
    /\ pc' = "run"
    /\ last' = NoRow
    /\ UNCHANGED <<prog, files, todo, counts, nrows, posts, nextId, master, NotLeadsVars>>

NextLeads == LeadsRun \/ LeadsNewRun

SpecLeads == InitLeads /\ [][NextLeads]_vars

----------------------------------------------------------------------------
(* dynamicsAccountsEnrich.py *)

\* words a name is made of, at most
MaxWords == 3

\* the character U+00A0
NBSP == "nbsp"

\* s.endswith(p)
endswith(s, p) == Len(s) >= Len(p) /\ SubSeq(s, Len(s) - Len(p) + 1, Len(s)) = p

\* s.replace(ch, new), ch one character
RECURSIVE replace_char(_, _, _)
replace_char(s, ch, new) ==
    IF s = <<>> THEN <<>>
    ELSE (IF Head(s) = ch THEN new ELSE <<Head(s)>>) \o replace_char(Tail(s), ch, new)

\* the characters of the class [.,'...] of the first re.sub; the class also holds
\* U+00E2, U+20AC and U+2122, which no name drawn here contains
PunctuationClass == {".", ",", "'"}

\* the characters of the class before the regional decoration; the class also
\* holds U+00E2, U+20AC, U+201C and U+201D
DashClass == {"-"}

\* re.sub(r"[.,'...]", "", s)
remove_punctuation(s) == SelectSeq(s, LAMBDA c : c \notin PunctuationClass)

\* re.sub(r"\s+", " ", s)
RECURSIVE collapse_spaces(_)
collapse_spaces(s) ==
    IF s = <<>> THEN <<>>
    ELSE IF IsSpace(Head(s)) THEN <<" ">> \o collapse_spaces(lstrip(s))
    ELSE <<Head(s)>> \o collapse_spaces(Tail(s))

\* the alternatives of the regional decoration
Regions == {<<"u", "s">>, <<"u", "s", "a">>, <<"u", ".", "s", ".", "a", ".">>,
            <<"n", "o", "r", "t", "h", " ", "a", "m", "e", "r", "i", "c", "a">>,
            <<"n", "a">>}

\* s without its last n characters
DropLast(s, n) == SubSeq(s, 1, Len(s) - n)

\* s ends in \s*[-...]\s*R for the alternative R
region_matches(s, R) ==
    /\ endswith(s, R)
    /\ rstrip(DropLast(s, Len(R))) # <<>>
    /\ rstrip(DropLast(s, Len(R)))[Len(rstrip(DropLast(s, Len(R))))] \in DashClass

\* re.sub(r"\s*[-...]\s*(us|usa|u\.s\.a\.|north america|na)$", "", s): the match,
\* if any, is the end of s from the white space before the dash on
strip_region(s) ==
    IF \E R \in Regions : region_matches(s, R)
    THEN LET R == CHOOSE R \in Regions : region_matches(s, R)
         IN  rstrip(DropLast(rstrip(DropLast(s, Len(R))), 1))
    ELSE s

\* suffixes
suffixes == <<<<" ", "i", "n", "c">>, <<" ", "i", "n", "c", ".">>,
              <<" ", "i", "n", "c", "o", "r", "p", "o", "r", "a", "t", "e", "d">>,
              <<" ", "l", "l", "c">>, <<" ", "l", "l", "c", ".">>,
              <<" ", "l", "t", "d">>, <<" ", "l", "t", "d", ".">>,
              <<" ", "l", "i", "m", "i", "t", "e", "d">>, <<" ", "c", "o">>,
              <<" ", "c", "o", ".">>, <<" ", "c", "o", "m", "p", "a", "n", "y">>,
              <<" ", "c", "o", "r", "p">>, <<" ", "c", "o", "r", "p", ".">>,
              <<" ", "c", "o", "r", "p", "o", "r", "a", "t", "i", "o", "n">>,
              <<" ", "p", "l", "c">>, <<" ", "g", "m", "b", "h">>,
              <<" ", "s", ".", "a", ".">>, <<" ", "s", "a">>>>

\* `for suf in suffixes' from the i-th suffix on
RECURSIVE strip_suffixes_pass(_, _, _)
strip_suffixes_pass(s, i, changed) ==
    IF i > Len(suffixes) THEN [s |-> s, changed |-> changed]
    ELSE IF endswith(s, suffixes[i])
    THEN strip_suffixes_pass(rstrip(DropLast(s, Len(suffixes[i]))), i + 1, TRUE)
    ELSE strip_suffixes_pass(s, i + 1, changed)

\* `while changed and s', entered with changed
RECURSIVE strip_suffixes(_, _)
strip_suffixes(s, changed) ==
    IF changed /\ s # <<>>
    THEN strip_suffixes(strip_suffixes_pass(s, 1, FALSE).s,
                        strip_suffixes_pass(s, 1, FALSE).changed)
    ELSE s

\* normalize_name(name), name a str
normalize_name(name) ==
    strip(collapse_spaces(
        strip_suffixes(
            strip(strip_region(
                strip(collapse_spaces(
                    remove_punctuation(
                        replace_char(
                            replace_char(lower(strip(name)), NBSP, <<" ">>),
                            "&", <<" ", "a", "n", "d", " ">>)))))),
            TRUE)))

\* the words of the names drawn, and what stands between two words
NameWords == {<<"A", "c">>, <<"u", "s">>, <<"n", "a">>, <<"i", "n", "c">>,
              <<"c", "o">>, <<"u", "s", "a">>}
NameSeparators == {<<" ">>, <<" ", "-", " ">>, <<"-">>, <<" ", "&", " ">>,
                   <<",", " ">>, <<".">>}

\* names of up to n words
RECURSIVE NamesOf(_)
NamesOf(n) ==
    IF n = 1 THEN NameWords
    ELSE NamesOf(n - 1)
         \cup {x \o p \o w : x \in NamesOf(n - 1), p \in NameSeparators, w \in NameWords}

\* an account name, before normalize_name is called on it
InitEnrich ==
    /\ prog = "dynamicsAccountsEnrich"
    /\ pc = "name"
    /\ files = 0
    /\ todo = 0
    /\ counts = [runs |-> 0]
    /\ last \in {[n |-> 0, raised |-> FALSE, outcome |-> "none", name |-> x] :
                    x \in NamesOf(MaxWords)}
    /\ nrows = 0
    /\ posts = <<>>
    /\ nextId = FirstNewId
    /\ IdleContacts
    /\ IdleJobs
    /\ IdleMail
    /\ IdleLeads

\* key = normalize_name(raw)
EnrichNormalize ==
    /\ prog = "dynamicsAccountsEnrich" /\ pc = "name"
    /\ last' = [n |-> 1, raised |-> FALSE, outcome |-> "normalized", name |-> last.name,
                key |-> normalize_name(last.name)]
    /\ pc' = "key"
    /\ UNCHANGED <<prog, files, todo, counts, nrows, posts, nextId, contactsVars,
                   jobsVars, mailVars, leadsVars>>

NextEnrich == EnrichNormalize

SpecEnrich == InitEnrich /\ [][NextEnrich]_vars

----------------------------------------------------------------------------
(* dynamicsAccountsJobs.py: the claims *)

\* the job-posting POSTs among a sequence of requests
JobPosts(ps) == SelectSeq(ps, LAMBDA q : q.entity = "cr21a_jobpostings")

----------------------------------------------------------------------------
(* the row loops: the claim *)

\* the failure counter of the ingest function that runs
FailureCount(c) == IF prog = "dynamicsContacts" THEN c.failures ELSE c.fail_count

\* the counters other than the failure counter
OtherCounts(c) ==
    IF prog = "dynamicsContacts" THEN <<c.created_contacts, c.skipped_contacts>>
    ELSE IF prog = "toDynamics" THEN <<c.success_count>>
    ELSE <<c.success_count, c.skipped_count>>

\* C2: in ingest_file (dynamicsAccountsJobs, toDynamics) and ingest_wiza_file
\* (dynamicsContacts), a row that raises an exception adds exactly one to the
\* failure counter and to no other counter, and the loop goes on to the next
\* row; the loop is left only when every row of the file was processed, by the
\* function returning
C2_RowFailureIsCounted ==
    [][ /\ (last'.n = last.n + 1 /\ last'.raised) =>
              /\ FailureCount(counts') = FailureCount(counts) + 1
              /\ OtherCounts(counts') = OtherCounts(counts)
              /\ pc' = "next"
              /\ todo' = todo - 1
        /\ (last'.n = last.n + 1 /\ ~last'.raised) =>
              FailureCount(counts') = FailureCount(counts)
        /\ (pc \in {"rows", "next"} /\ pc' \notin {"rows", "next"}) =>
              /\ todo = 0
              /\ pc' = "files"
              /\ last'.outcome = "returned"
      ]_vars

\* C2 witness: ingest_file of toDynamics.py returned from a file of two rows of
\* which one raised and one created a job posting
C2_Witness ==
    /\ prog = "toDynamics" /\ last.outcome = "returned" /\ nrows = 2
    /\ counts.fail_count = 1 /\ counts.success_count = 1

----------------------------------------------------------------------------
(* dynamicsContacts.py: the claims *)

\* the step is one iteration of the row loop of dynamicsContacts.ingest_wiza_file
ContactsRowStep == prog = "dynamicsContacts" /\ last'.n = last.n + 1

\* the account POSTs and the contact POSTs among a sequence of requests
AccountPosts(ps) == SelectSeq(ps, LAMBDA q : q.entity = "accounts")
ContactPosts(ps) == SelectSeq(ps, LAMBDA q : q.entity = "contacts")

\* the keys under which upsert_contact files a payload's email and fullname
EmailKey(v) == IF Falsy(sanitize(v)) THEN None ELSE lower(strip(sanitize(v)))

\* C3: resolve_account_id returns accounts_map[normalized company name] if that
\* is a key; otherwise domains_map[website domain] if that is a key; otherwise
\* domains_map[email domain] if that is a key; in these three cases it issues no
\* account POST.  Otherwise, with a company name present, it issues one account
\* POST for that name and, the POST succeeding, returns the new id and files it
\* under the name (the POST failing, it raises); with no company name it returns
\* None and issues no request.
C3_ResolvePriority ==
    [][ (ContactsRowStep /\ last'.resolved) =>
        \A company \in {sanitize(last'.row.accountname)} :
        \A name_key \in {_norm_name(company)},
           web \in {_extract_domain(sanitize(last'.row.websiteurl))},
           em \in {_extract_domain(sanitize(last'.row.emailaddress1))} :
        \A byName \in {name_key \in DOMAIN accounts_map},
           byWeb \in {web \in DOMAIN domains_map},
           byEmail \in {em \in DOMAIN domains_map} :
        LET res   == last'.account_id
            reqs  == last'.account_posts
            quiet == reqs = <<>> /\ accounts_map' = accounts_map
                     /\ domains_map' = domains_map
        IN  /\ byName => res = accounts_map[name_key] /\ quiet
            /\ (~byName /\ byWeb) => res = domains_map[web] /\ quiet
            /\ (~byName /\ ~byWeb /\ byEmail) => res = domains_map[em] /\ quiet
            /\ (~byName /\ ~byWeb /\ ~byEmail /\ ~Falsy(company)) =>
                  /\ Len(reqs) = 1
                  /\ reqs[1].entity = "accounts" /\ reqs[1].key = name_key
                  /\ reqs[1].ok => /\ res = reqs[1].id /\ res # NoId
                                   /\ ~(last'.raised /\ ~last'.upserted)
                                   /\ name_key \in DOMAIN accounts_map'
                                   /\ accounts_map'[name_key] = res
                  /\ ~reqs[1].ok => last'.raised /\ accounts_map' = accounts_map
            /\ (~byName /\ ~byWeb /\ ~byEmail /\ Falsy(company)) =>
                  res = NoId /\ quiet /\ last'.outcome = "no_account"
      ]_vars

\* C3 witness: a row whose company name is no key and whose website domain is no
\* key was resolved through its email domain, which maps to another account than
\* the one created for a website during the run
C3_Witness ==
    /\ prog = "dynamicsContacts" /\ last.n > 0 /\ last.outcome # "returned"
    /\ last.outcome # "none" /\ last.resolved
    /\ last.account_posts = <<>>
    /\ _norm_name(sanitize(last.row.accountname)) \notin DOMAIN accounts_map
    /\ _extract_domain(sanitize(last.row.websiteurl)) \notin DOMAIN domains_map
    /\ _extract_domain(sanitize(last.row.emailaddress1)) \in DOMAIN domains_map
    /\ last.account_id = domains_map[_extract_domain(sanitize(last.row.emailaddress1))]
    /\ \E d \in DOMAIN domains_map : domains_map[d] # last.account_id

\* C4 as claimed: at most one account POST is issued per normalized company name
C4_OnePostIssuedPerName ==
    prog = "dynamicsContacts" =>
        \A i, j \in 1..Len(AccountPosts(posts)) :
            AccountPosts(posts)[i].key = AccountPosts(posts)[j].key => i = j

\* C4, amended: at most one account POST succeeds per normalized company name (a
\* POST that failed is issued again for the next row with that name); no account
\* POST is issued for a name whose normalized form fetch_all_accounts loaded;
\* after a successful creation accounts_map maps the normalized name to the new id
C4_OneAccountPerName ==
    prog = "dynamicsContacts" =>
        LET ps     == AccountPosts(posts)
            loaded == {k \in DOMAIN accounts_map : accounts_map[k] < FirstNewId}
        IN  /\ \A i, j \in 1..Len(ps) :
                   (ps[i].ok /\ ps[j].ok /\ ps[i].key = ps[j].key) => i = j
            /\ \A i \in 1..Len(ps) : ps[i].key \notin loaded
            /\ \A i \in 1..Len(ps) :
                   ps[i].ok => /\ ps[i].key \in DOMAIN accounts_map
                               /\ accounts_map[ps[i].key] = ps[i].id

\* C4 witness: two rows named the same company, spelled differently; the account
\* POST of the first failed and that of the second created the account
C4_Witness ==
    /\ prog = "dynamicsContacts"
    /\ Len(AccountPosts(posts)) = 2
    /\ AccountPosts(posts)[1].key = AccountPosts(posts)[2].key
    /\ ~AccountPosts(posts)[1].ok /\ AccountPosts(posts)[2].ok
    /\ accounts_map[AccountPosts(posts)[2].key] = AccountPosts(posts)[2].id
    /\ \E k \in DOMAIN accounts_map : accounts_map[k] < FirstNewId

\* C5: upsert_contact issues a contact POST only when the payload's lower-cased
\* email is no key of contacts_by_email and its lower-cased fullname is no key of
\* contacts_by_fullname; when either is a key it returns the id filed there and
\* issues no request; after a successful POST both indexes map the contact's
\* email and fullname to the created id; and no two contacts created in one run
\* have the same email or the same fullname
C5_UpsertContact ==
    [][ (ContactsRowStep /\ last'.upserted) =>
        \A e \in {EmailKey(last'.contact_payload.emailaddress1)},
           f \in {EmailKey(last'.contact_payload.fullname)},
           made \in {SelectSeq(ContactPosts(posts'), LAMBDA q : q.ok)} :
        \A byEmail \in {e \in DOMAIN contacts_by_email},
           byName \in {f \in DOMAIN contacts_by_fullname} :
        LET reqs == last'.contact_posts
        IN  /\ reqs # <<>> => ~byEmail /\ ~byName /\ Len(reqs) = 1
            /\ byEmail => /\ reqs = <<>> /\ ~last'.raised
                          /\ last'.contact_id = contacts_by_email[e]
            /\ (~byEmail /\ byName) => /\ reqs = <<>> /\ ~last'.raised
                                       /\ last'.contact_id = contacts_by_fullname[f]
            /\ (byEmail \/ byName) => /\ contacts_by_email' = contacts_by_email
                                      /\ contacts_by_fullname' = contacts_by_fullname
            /\ (reqs # <<>> /\ reqs[1].ok) =>
                  /\ last'.contact_id = reqs[1].id
                  /\ e # None => /\ e \in DOMAIN contacts_by_email'
                                  /\ contacts_by_email'[e] = reqs[1].id
                  /\ f # None => /\ f \in DOMAIN contacts_by_fullname'
                                  /\ contacts_by_fullname'[f] = reqs[1].id
            /\ \A i, j \in 1..Len(made) : i # j =>
                  /\ EmailKey(made[i].email) # None =>
                         EmailKey(made[i].email) # EmailKey(made[j].email)
                  /\ EmailKey(made[i].fullname) # None =>
                         EmailKey(made[i].fullname) # EmailKey(made[j].fullname)
      ]_vars

\* C5 witness: a contact was created during the run and a later row with another
\* email and the same fullname was answered with that contact, with no request
C5_Witness ==
    /\ prog = "dynamicsContacts" /\ last.n > 1 /\ last.outcome = "exists"
    /\ last.upserted /\ last.contact_posts = <<>>
    /\ last.contact_id >= FirstNewId
    /\ EmailKey(last.contact_payload.emailaddress1) \notin DOMAIN contacts_by_email
    /\ contacts_by_fullname[EmailKey(last.contact_payload.fullname)] = last.contact_id

----------------------------------------------------------------------------
(* dynamicsEmails.py: the claims *)

\* the step is one iteration of `for contact in contacts' of dynamicsEmails.main
EmailsContactStep == prog = "dynamicsEmails" /\ last'.n = last.n + 1

\* the POSTs of email activities among a sequence of requests
EmailPosts(ps) == SelectSeq(ps, LAMBDA q : q.entity = "emails")

\* C6 as claimed: for a contact whose contactid is in the set returned by
\* load_recently_emailed_contact_ids, main stages no email and logs none, and
\* counts the (job, contact) pair in skipped_recent
C6_RecentCountedAsRecent ==
    [][ (EmailsContactStep /\ last'.contact.contactid \in recently_contacted_ids) =>
            /\ outlook' = outlook /\ posts' = posts
            /\ counts'.staged_count = counts.staged_count
            /\ counts'.skipped_recent = counts.skipped_recent + 1
      ]_vars

\* C6, amended: for a contact whose contactid is in the set returned by
\* load_recently_emailed_contact_ids, main stages no email and logs none; the
\* (job, contact) pair is counted in skipped_recent when the contact has a
\* usable email address, and in skipped_no_email, not in skipped_recent, when
\* normalize_email gives the empty string
C6_RecentNeverStaged ==
    [][ (EmailsContactStep /\ last'.contact.contactid \in recently_contacted_ids) =>
            /\ outlook' = outlook /\ posts' = posts
            /\ counts'.staged_count = counts.staged_count
            /\ counts'.missing_attachments = counts.missing_attachments
            /\ IF normalize_email(last'.contact.emailaddress1) = <<>>
               THEN /\ counts'.skipped_no_email = counts.skipped_no_email + 1
                    /\ counts'.skipped_recent = counts.skipped_recent
               ELSE /\ counts'.skipped_recent = counts.skipped_recent + 1
                    /\ counts'.skipped_no_email = counts.skipped_no_email
      ]_vars

\* C6 witness: without preview, one contact was staged and logged and another,
\* recently emailed and with a usable address, was skipped as recent
C6_Witness ==
    /\ prog = "dynamicsEmails" /\ ~preview
    /\ last.n = 2 /\ last.outcome = "recent"
    /\ last.contact.contactid \in recently_contacted_ids
    /\ counts.skipped_recent = 1 /\ counts.staged_count = 1
    /\ outlook.moved = 1 /\ Len(EmailPosts(posts)) = 1

\* C7: when main runs with preview=True no mail item is created, saved or
\* moved, no email activity is posted to Dynamics, and staged_count stays 0
C7_PreviewStagesNothing ==
    (prog = "dynamicsEmails" /\ preview) =>
        /\ outlook.created = 0 /\ outlook.saved = 0 /\ outlook.moved = 0
        /\ EmailPosts(posts) = <<>>
        /\ counts.staged_count = 0

\* C7 witness: a run with preview=True ended after previewing the email for a
\* contact that has an address and was not emailed recently
C7_Witness ==
    /\ prog = "dynamicsEmails" /\ preview /\ pc = "done"
    /\ last.n > 0 /\ last.outcome = "preview"
    /\ last.contact.contactid \notin recently_contacted_ids
    /\ outlook.dispatched

----------------------------------------------------------------------------
(* outboundEmails.py: the claim *)

\* C8: outboundEmails.main touches Outlook, reads the leads and writes
\* SentEmails.csv only when EMAILS_SECRET is non-empty and what the user typed
\* equals it exactly; with no secret it returns without asking, and with a wrong
\* input it returns at once, in both cases before any Outlook or log operation
C8_SecretGate ==
    [][ prog = "outboundEmails" =>
          /\ (outlook' # outlook \/ sent_log' # sent_log \/ leads_read' # leads_read) =>
                 /\ secret # None /\ secret # <<>>
                 /\ user_input = secret
          /\ (pc = "main" /\ (secret = None \/ secret = <<>>)) =>
                 /\ pc' = "done"
                 /\ UNCHANGED <<outlook, sent_log, leads_read, user_input>>
          /\ (pc = "input" /\ user_input' # secret) =>
                 /\ pc' = "done"
                 /\ UNCHANGED <<outlook, sent_log, leads_read>>
      ]_vars

\* C8 witness: a secret is set, the user typed it in another letter case, and
\* main returned with Outlook untouched, no lead read and the log as it was
C8_Witness ==
    /\ prog = "outboundEmails" /\ pc = "done"
    /\ secret # None /\ secret # <<>>
    /\ user_input # None /\ user_input # secret /\ lower(user_input) = lower(secret)
    /\ outlook = NoOutlook /\ ~leads_read /\ sent_log \in SentLogs

----------------------------------------------------------------------------
(* accountExport.py: the claim *)

\* the Account Id cells of all rows of the files fs, as read back
ExportedIds(fs) == {read_all(fs)[i].Account_Id : i \in 1..Len(read_all(fs))}

\* C9: after any sequence of runs every Account Id occurs in at most one row
\* across all Jake_Dynamics_Acc_Import_*.csv files; a call of export_accounts
\* writes at most one file, holding one row for each logged Account Id that no
\* earlier file holds, and it writes no file when every logged account is
\* already exported or none was logged
C9_ExportedOnce ==
    [][ prog = "accountExport" =>
        \A rows \in {read_all(export_files')}, old \in {ExportedIds(export_files)},
           logged \in {{accounts_export[i].Account_Id : i \in 1..Len(accounts_export)}} :
           /\ \A i, j \in 1..Len(rows) :
                  rows[i].Account_Id = rows[j].Account_Id => i = j
           /\ last'.n = last.n + 1 =>
                 /\ ExportedIds(export_files') = old \cup logged
                 /\ logged \subseteq old <=> export_files' = export_files
                 /\ Len(export_files') <= Len(export_files) + 1
                 /\ \A k \in 1..Len(export_files) : export_files'[k] = export_files[k]
      ]_vars

\* C9 witness: a second process logged an account the first had exported and
\* one it had not, and its file holds the new account only
C9_Witness ==
    /\ prog = "accountExport" /\ pc = "exported"
    /\ Len(export_files) = 2 /\ Len(export_files[2]) = 1
    /\ Len(accounts_export) = 2
    /\ \E i \in 1..Len(export_files[1]) :
           export_files[1][i].Account_Id = accounts_export[1].Account_Id
    /\ export_files[2][1].Account_Id = accounts_export[2].Account_Id

----------------------------------------------------------------------------
(* leadsExtract.py: the claim *)

\* the value that column c has in the lowest-id row of rows that has email e and
\* a value in column c; nan when no such row has one
LowestIdValue(rows, e, c) ==
    LET S == {k \in 1..Len(rows) : rows[k].email = e /\ ~isna(c, rows[k][c])}
    IN  IF S = {} THEN NaN
        ELSE rows[CHOOSE k \in S : \A l \in S : rows[k].id <= rows[l].id][c]

\* C10 as claimed: after main writes the master file no two of its rows share an
\* email, and the row of each email holds in each column, id included, the value
\* of the lowest-id row with that email that has a value in that column
C10_EveryColumnFromLowestId ==
    [][ (prog = "leadsExtract" /\ last'.n = last.n + 1 /\ last'.outcome = "written") =>
        \A out \in {leads_read_csv(master')} :
           /\ \A i, j \in 1..Len(out) : out[i].email = out[j].email => i = j
           /\ \A i \in 1..Len(out) : \A c \in LeadColumns \cup {"id"} :
                  out[i][c] = LowestIdValue(last'.combined, out[i].email, c)
      ]_vars

\* C10, amended: after main writes the master file no two of its rows share an
\* email, every email of the merged rows has a row, and that row holds in each
\* column other than id the value of the lowest-id row with that email that has
\* a value in that column; the ids are renumbered 1..N in the order of the
\* emails, and rows without an email are dropped
C10_DataFromLowestId ==
    [][ (prog = "leadsExtract" /\ last'.n = last.n + 1 /\ last'.outcome = "written") =>
        \A out \in {leads_read_csv(master')} :
           /\ \A i, j \in 1..Len(out) : out[i].email = out[j].email => i = j
           /\ {out[i].email : i \in 1..Len(out)}
                  = {last'.combined[k].email : k \in 1..Len(last'.combined)} \ {NaN}
           /\ \A i \in 1..Len(out) :
                  /\ out[i].id = i
                  /\ \A c \in LeadColumns :
                         out[i][c] = LowestIdValue(last'.combined, out[i].email, c)
      ]_vars

\* C10 witness: of two merged rows with one email the one with the lower id had
\* no name and the other had one, and the row written has that name
C10_Witness ==
    /\ prog = "leadsExtract" /\ last.n > 0 /\ last.outcome = "written"
    /\ \E i, j \in 1..Len(last.combined) :
          /\ last.combined[i].id < last.combined[j].id
          /\ last.combined[i].email = last.combined[j].email
          /\ last.combined[i].name = NaN /\ last.combined[j].name # NaN
          /\ \E k \in 1..Len(master) :
                /\ master[k].email = last.combined[i].email
                /\ master[k].name = last.combined[j].name
                /\ master[k].source_file = last.combined[i].source_file

\* a step that is a run of leadsExtract.main
LeadsRunStep == prog = "leadsExtract" /\ last'.n = last.n + 1

\* C11: after every run of main that writes the master file the id column of
\* WizaLeads.csv is the sequence 1..N, N the number of rows written, with no
\* gap and no duplicate
C11_ContiguousIds ==
    [][ (LeadsRunStep /\ last'.outcome = "written") =>
        /\ [i \in 1..Len(master') |-> master'[i].id] = [i \in 1..Len(master') |-> i]
        /\ {master'[i].id : i \in 1..Len(master')} = 1..Len(master')
        /\ \A i, j \in 1..Len(master') : master'[i].id = master'[j].id => i = j
      ]_vars

\* C11 witness: a run merged rows numbered up to 3 or more, the deduplication
\* removed some of them, and the two or more rows written are numbered 1..N
C11_Witness ==
    /\ prog = "leadsExtract" /\ last.n > 0 /\ last.outcome = "written"
    /\ Len(master) >= 2 /\ Len(last.combined) > Len(master)
    /\ \E k \in 1..Len(last.combined) : last.combined[k].id > Len(master)
    /\ \A i \in 1..Len(master) : master[i].id = i

\* the base names in the source_file column of the master file rows
MasterSources(rows) == {rows[i].source_file : i \in 1..Len(rows)} \ {<<>>}

\* the files of fs that are not in the master file yet and have rows
Contributing(fs, rows) ==
    {k \in 1..Len(fs) : fs[k].base \notin MasterSources(rows) /\ fs[k].rows # <<>>}

\* C12: in a run of main a WIZA file whose base name is in the master's
\* source_file column contributes no rows and is not archived; and when the
\* master file exists and no scanned file contributes rows, main leaves
\* WizaLeads.csv as it is and moves no file
C12_SkipImported ==
    [][ LeadsRunStep =>
        /\ \A k \in 1..Len(last'.fs) :
              last'.fs[k].base \in MasterSources(master) =>
                 /\ \A a \in 1..Len(last'.archived) : last'.archived[a].base # last'.fs[k].base
                 /\ \A c \in 1..Len(last'.combined) :
                       last'.combined[c].id > Len(master) =>
                          last'.combined[c].source_file # last'.fs[k].base
        /\ \A c \in 1..Len(last'.combined) :
              last'.combined[c].id > Len(master) =>
                 \E a \in 1..Len(last'.archived) :
                    last'.archived[a].base = last'.combined[c].source_file
        /\ (master # <<>> /\ Contributing(last'.fs, master) = {}) =>
              /\ master' = master
              /\ last'.outcome = "unchanged"
              /\ last'.archived = <<>>
      ]_vars

\* C12 witness: the master file exists, the only files scanned were imported
\* before and have rows, and main returned with nothing written or moved
C12_Witness ==
    /\ prog = "leadsExtract" /\ last.n > 0 /\ last.outcome = "unchanged"
    /\ master # <<>> /\ last.archived = <<>>
    /\ \E k \in 1..Len(last.fs) :
          last.fs[k].base \in MasterSources(master) /\ last.fs[k].rows # <<>>

\* the emails of the master file rows
MasterEmails(rows) == {rows[i].email : i \in 1..Len(rows)}

\* the rows of the contributing files of fs whose email the master file lacks
RowsNotInMaster(fs, rows) ==
    {<<k, i>> \in (1..Len(fs)) \X (1..MaxNewRows + 1) :
        /\ k \in Contributing(fs, rows)
        /\ i <= Len(fs[k].rows)
        /\ to_csv_cell(fs[k].rows[i].email) \notin MasterEmails(rows)}

\* C13: the rows of a new file whose email is already in the master file are
\* removed before the file's rows are appended, so "New rows added" counts only
\* rows whose email was not in the master
C13_NewRowsNotInMaster ==
    [][ (LeadsRunStep /\ last'.outcome = "written") =>
        /\ last'.new_rows = Cardinality(RowsNotInMaster(last'.fs, master))
        /\ \A c \in 1..Len(last'.combined) :
              last'.combined[c].id > Len(master) =>
                 to_csv_cell(last'.combined[c].email) \notin MasterEmails(master)
      ]_vars

----------------------------------------------------------------------------
(* dynamicsAccountsJobs.py: the claims on ingest_file *)

\* a step that is one iteration of the loop of ingest_file
JobsRowStep == prog = "dynamicsAccountsJobs" /\ last'.n = last.n + 1

\* the row's account was found or created: it has a company name and no
\* account POST of the row failed
AccountFoundOrCreated(l) ==
    /\ l.row.Company_Name # None
    /\ \A i \in 1..Len(l.posts) : l.posts[i].entity = "accounts" => l.posts[i].ok

\* C14: whenever upsert_account finds or creates the account of a row, exactly
\* one entry for the account is appended to accounts_export and the row goes on
\* to upsert_contact and create_job
C14_AccountLoggedOnce ==
    [][ (JobsRowStep /\ AccountFoundOrCreated(last')) =>
        /\ Len(accounts_export') = Len(accounts_export) + 1
        /\ last'.outcome \in {"upsert_contact", "create_job"}
      ]_vars

\* a step that is one call of create_job as ingest_file makes it
CreateJobStep == prog = "create_job" /\ last'.n = last.n + 1

\* the Job Link of a row as create_job compares it
StrippedLink(row) == IF row.Job_Link # None THEN strip(row.Job_Link) ELSE <<>>

----------------------------------------------------------------------------
(* dynamicsAccountsEnrich.py: the claim *)

\* C16: normalize_name is idempotent: normalizing a normalized name gives the
\* same name, so a normalized name has no regional decoration or legal suffix
\* left that a second pass would strip
C16_NormalizeIdempotent ==
    (prog = "dynamicsAccountsEnrich" /\ last.outcome = "normalized") =>
        normalize_name(last.key) = last.key

====
